---------------------------- MODULE Spec2Model ----------------------------
(***************************************************************************)
(* PAC budget-execution view of robo-dou-corm: the table and chart         *)
(* front-end (static/pac.js, its 9-column successor and static/app.js).    *)
(*                                                                         *)
(* Texts are sequences of tokens, so that String.includes is a test on     *)
(* tokens.  JavaScript values are records [t, n, d, s]: t is the typeof    *)
(* tag ("undefined", "null", "number", "string"), n/d the number as a      *)
(* fraction (d = 0 is NaN), s the string.  Accented identifiers of the     *)
(* source are written without accents (ACAO, DOTACAO, DISPONIVEL).         *)
(***************************************************************************)
EXTENDS Integers, Sequences, FiniteSets, TLC

VARIABLES
    variant,                \* the script the page runs: "legacy" (8 columns)
                            \* or "extended" (9 columns) for the chart view,
                            \* "frontend" or "static" for the processing page,
                            \* "store" for the page of the static store,
                            \* "panel" for the panel of triggerProcess
    inputAno,               \* inputAno.value
    btnConsultarDisabled,   \* btnConsultar.disabled
    loadingTextContent,     \* loadingText.textContent
    loadingTextDisplay,     \* loadingText.style.display
    errorTextContent,       \* errorText.textContent
    errorTextDisplay,       \* errorText.style.display
    tableContainerDisplay,  \* tableContainer.style.display
    tableHeader,            \* the th cells of #table-header
    tableBody,              \* the tr rows of #table-body
    pacChart,               \* the Chart handle (NoChart while null)
    requests,               \* fetches whose promise is still pending
    sent,                   \* every fetch issued so far, in order
    completed,              \* every fetch settled so far, in order
    last,                   \* the event handled by the latest step
    rowData,                \* row callback: the row being rendered
    tr,                     \* row callback: the <tr> built from rowData
    novoIndicador,          \* row callback: the local novoIndicador
    dataValue,              \* el("data").value
    sectionsValue,          \* el("sections").value
    keywordsValue,          \* el("keywords").value
    btnProcessarDisabled,   \* btnProcessar.disabled
    btnProcessarIADisabled, \* btnProcessarIA.disabled
    btnProcessarValorDisabled, \* btnProcessarValor.disabled
    btnCopiarDisabled,      \* btnCopiar.disabled
    previewTextContent,     \* preview.textContent
    previewLoading,         \* preview.classList contains "loading"
    PAC_DB,                 \* the object PAC_DB of the static store
    selectAno,              \* selectAno.value of the store page
    tbody,                  \* the tr rows of "#pac-table tbody"
    graficoAno,             \* the year last given to atualizarGrafico
    raised,                 \* a listener of the store page threw
    dateInputValue,         \* dateInput.value of the panel
    secChecked,             \* the checked boxes among sec1, sec2, sec3
    keywordsInputValue,     \* keywordsInput.value
    loadingDivHidden,       \* loadingDiv.classList contains "hidden"
    resultsAreaInnerHTML,   \* resultsArea.innerHTML
    formData                \* triggerProcess: the local formData

uiVars == <<inputAno, btnConsultarDisabled, loadingTextContent,
            loadingTextDisplay, errorTextContent, errorTextDisplay,
            tableContainerDisplay, tableHeader, tableBody, pacChart>>
netVars == <<requests, sent, completed, last>>
rowVars == <<rowData, tr, novoIndicador>>
formVars == <<dataValue, sectionsValue, keywordsValue>>
procVars == <<formVars, btnProcessarDisabled, btnProcessarIADisabled,
              btnProcessarValorDisabled, btnCopiarDisabled,
              previewTextContent, previewLoading>>
storeVars == <<PAC_DB, selectAno, tbody, graficoAno, raised>>
panelVars == <<dateInputValue, secChecked, keywordsInputValue,
               loadingDivHidden, resultsAreaInnerHTML, formData>>
pageVars == <<procVars, storeVars, panelVars>>
vars == <<variant, uiVars, netVars, rowVars, pageVars>>

(***************************************************************************)
(* Bounds of the model.                                                    *)
(***************************************************************************)
MaxAmount == 2      \* amounts of a row range over 0..MaxAmount
MaxClicks == 1      \* user events that start a table fetch

(***************************************************************************)
(* JavaScript values.                                                      *)
(***************************************************************************)
Undef == [t |-> "undefined", n |-> 0, d |-> 1, s |-> ""]
Null == [t |-> "null", n |-> 0, d |-> 1, s |-> ""]
Num(n) == [t |-> "number", n |-> n, d |-> 1, s |-> ""]
Frac(n, d) == [t |-> "number", n |-> n, d |-> d, s |-> ""]
NaN == [t |-> "number", n |-> 0, d |-> 0, s |-> ""]
Str(s) == [t |-> "string", n |-> 0, d |-> 1, s |-> s]

IsNumber(v) == v.t = "number"
IsNaN(v) == v.t = "number" /\ v.d = 0

\* ToBoolean: undefined, null, 0, NaN and "" are falsy.
Truthy(v) ==
    CASE v.t = "undefined" -> FALSE
      [] v.t = "null" -> FALSE
      [] v.t = "number" -> v.d # 0 /\ v.n # 0
      [] OTHER -> v.s # ""

\* a || b
Or(a, b) == IF Truthy(a) THEN a ELSE b

\* ToNumber: the strings of the model are "" or not numeric.
ToNumber(v) ==
    CASE v.t = "number" -> v
      [] v.t = "null" -> Num(0)
      [] v.t = "string" -> IF v.s = "" THEN Num(0) ELSE NaN
      [] OTHER -> NaN

\* a !== 0
StrictNotZero(v) == ~(v.t = "number" /\ v.d # 0 /\ v.n = 0)

\* a - b
Sub(a, b) ==
    LET x == ToNumber(a)
        y == ToNumber(b)
    IN  IF x.d = 0 \/ y.d = 0 THEN NaN
        ELSE Frac(x.n * y.d - y.n * x.d, x.d * y.d)

\* a / b, for b that is not zero (the only use is guarded by b !== 0).
Div(a, b) ==
    LET x == ToNumber(a)
        y == ToNumber(b)
    IN  IF x.d = 0 \/ y.d = 0 \/ y.n = 0 THEN NaN
        ELSE IF y.n > 0 THEN Frac(x.n * y.d, x.d * y.n)
        ELSE Frac(-(x.n * y.d), -(x.d * y.n))

\* a < 0
Negative(v) == LET x == ToNumber(v) IN x.d # 0 /\ x.n < 0

Abs(i) == IF i < 0 THEN -i ELSE i

\* Rounding of toLocaleString to a fixed number of fraction digits: to the
\* nearest, ties away from zero; the magnitude of n/d in units of 1/scale.
\* The fraction is rounded exactly, where the source rounds the binary
\* double nearest to it.
RoundMag(n, d, scale) == (2 * Abs(n) * scale + d) \div (2 * d)

(***************************************************************************)
(* Cell texts: [fmt, neg, mag, s].  fmt "currency" is "R$ " and mag        *)
(* hundredths, fmt "percent" is mag tenths and "%", fmt "nan" is the text  *)
(* "NaN" inside either, fmt "plain" is the string s.                       *)
(***************************************************************************)
Text(fmt, neg, mag, s) == [fmt |-> fmt, neg |-> neg, mag |-> mag, s |-> s]
ZeroCurrency == Text("currency", FALSE, 0, "")      \* "R$ 0,00"
ZeroPercent == Text("percent", FALSE, 0, "")        \* "0,0%"

formatCurrency(value) ==
    IF ~IsNumber(value) THEN ZeroCurrency
    ELSE IF IsNaN(value) THEN Text("nan", FALSE, 0, "R$")
    ELSE Text("currency", value.n < 0, RoundMag(value.n, value.d, 100), "")

\* pac.js and static/app.js: no isNaN test.
formatPercentLegacy(value) ==
    IF ~IsNumber(value) THEN ZeroPercent
    ELSE IF IsNaN(value) THEN Text("nan", FALSE, 0, "%")
    ELSE Text("percent", value.n < 0, RoundMag(value.n, value.d, 1000), "")

\* Mutant: the 9-column variant without its isNaN test.
formatPercentNoNaNTest(value) ==
    IF ~IsNumber(value) THEN ZeroPercent
    ELSE IF IsNaN(value) THEN Text("nan", FALSE, 0, "%")
    ELSE Text("percent", value.n < 0, RoundMag(value.n, value.d, 1000), "")

\* the 9-column variant: NaN renders as "0,0%".
formatPercentExtended(value) ==
    IF ~IsNumber(value) \/ IsNaN(value) THEN ZeroPercent
    ELSE Text("percent", value.n < 0, RoundMag(value.n, value.d, 1000), "")

formatPercent(v, value) ==
    IF v = "legacy" THEN formatPercentLegacy(value)
    ELSE formatPercentExtended(value)

\* td.textContent = value || ""
PlainText(value) ==
    LET x == Or(value, Str(""))
    IN  IF x.t = "number" THEN Text("number", x.n < 0, Abs(x.n), "")
        ELSE Text("plain", FALSE, 0, x.s)

(***************************************************************************)
(* Rows of GET /api/pac-data/{year}: functions from the API's keys to      *)
(* values, Undef for a key the row does not carry.                         *)
(***************************************************************************)
RowKeys == {"PROGRAMA", "ACAO", "LOA", "DOTACAO ATUAL", "DISPONIVEL",
            "EMPENHADO (c)", "LIQUIDADO", "PAGO", "% EMP/DOT"}

headers == <<"PROGRAMA", "ACAO", "LOA", "DOTACAO ATUAL",
             "EMPENHADO (c)", "LIQUIDADO", "PAGO", "% EMP/DOT">>

headersDisplay == <<"PROGRAMA", "ACAO", "LOA", "DOTACAO ATUAL",
                    "DISPONIVEL",
                    "EMPENHADO (c)", "LIQUIDADO", "PAGO",
                    "IND. (E-D)/E">>

Headers(v) == IF v = "legacy" THEN headers ELSE headersDisplay

\* The indicator column the server adds to a legacy row: committed over
\* allocated, 0 when nothing is allocated.
apiIndicator(empenhado, dotacao) ==
    IF IsNumber(dotacao) /\ dotacao.d # 0 /\ dotacao.n # 0 /\ IsNumber(empenhado)
    THEN Div(empenhado, dotacao)
    ELSE Num(0)

\* One row of the server's answer.
ApiRow(programa, acao, loa, dotacao, disponivel, empenhado, liquidado, pago) ==
    [k \in RowKeys |->
        CASE k = "PROGRAMA" -> programa
          [] k = "ACAO" -> acao
          [] k = "LOA" -> loa
          [] k = "DOTACAO ATUAL" -> dotacao
          [] k = "DISPONIVEL" -> disponivel
          [] k = "EMPENHADO (c)" -> empenhado
          [] k = "LIQUIDADO" -> liquidado
          [] k = "PAGO" -> pago
          [] OTHER -> apiIndicator(empenhado, dotacao)]

(***************************************************************************)
(* The row callback of fetchAndRenderTable.                                *)
(***************************************************************************)
\* Mutant: the null test on ACAO comes before the test for the total.
RowClassListAcaoFirst(row) ==
    IF row["ACAO"] = Null THEN {"row-programa"}
    ELSE IF row["PROGRAMA"] = Str("Total Geral") THEN {"row-total"}
    ELSE {"row-acao"}

\* tr.classList after the if / else if / else of the callback.
RowClassList(row) ==
    IF row["PROGRAMA"] = Str("Total Geral") THEN {"row-total"}
    ELSE IF row["ACAO"] = Null THEN {"row-programa"}
    ELSE {"row-acao"}

Td(text, num, red) == [text |-> text, num |-> num, red |-> red]

\* Mutant: the branch for the '% EMP/DOT' column is missing, the column
\* falls through to the currency format.
LegacyCellNoPercent(row, header) ==
    LET value == row[header]
    IN  IF header = "PROGRAMA" \/ header = "ACAO"
        THEN Td(PlainText(value), FALSE, FALSE)
        ELSE Td(formatCurrency(value), TRUE, FALSE)

\* headers.forEach(header => ...) of the 8-column table.
LegacyCell(row, header) ==
    LET value == row[header]
    IN  IF header = "PROGRAMA" \/ header = "ACAO"
        THEN Td(PlainText(value), FALSE, FALSE)
        ELSE IF header = "% EMP/DOT"
        THEN Td(formatPercentLegacy(value), TRUE, FALSE)
        ELSE Td(formatCurrency(value), TRUE, FALSE)

LegacyCells(row) == [i \in 1..Len(headers) |-> LegacyCell(row, headers[i])]

\* Mutant: the two formulas mixed, the difference divided by the allocation.
NovoIndicadorOverDotacao(row) ==
    LET dotacao == Or(row["DOTACAO ATUAL"], Num(0))
        empenhado == Or(row["EMPENHADO (c)"], Num(0))
        disponivel == Or(row["DISPONIVEL"], Num(0))
    IN  IF StrictNotZero(dotacao)
        THEN Div(Sub(empenhado, disponivel), dotacao)
        ELSE Num(0)

\* let novoIndicador = 0; if (empenhado !== 0) novoIndicador = (e - d) / e
NovoIndicador(row) ==
    LET empenhado == Or(row["EMPENHADO (c)"], Num(0))
        disponivel == Or(row["DISPONIVEL"], Num(0))
    IN  IF StrictNotZero(empenhado)
        THEN Div(Sub(empenhado, disponivel), empenhado)
        ELSE Num(0)

valoresOrdenados(row) ==
    <<row["PROGRAMA"], row["ACAO"], row["LOA"],
      Or(row["DOTACAO ATUAL"], Num(0)),
      Or(row["DISPONIVEL"], Num(0)),
      Or(row["EMPENHADO (c)"], Num(0)),
      row["LIQUIDADO"], row["PAGO"],
      NovoIndicador(row)>>

\* valoresOrdenados.forEach((value, index) => ...) of the 9-column table.
ExtendedCell(value, headerName) ==
    IF headerName = "PROGRAMA" \/ headerName = "ACAO"
    THEN Td(PlainText(value), FALSE, FALSE)
    ELSE IF headerName = "IND. (E-D)/E"
    THEN Td(formatPercentExtended(value), TRUE, Negative(value))
    ELSE Td(formatCurrency(value), TRUE, FALSE)

ExtendedCells(row) ==
    [i \in 1..Len(headersDisplay) |->
        ExtendedCell(valoresOrdenados(row)[i], headersDisplay[i])]

\* The <tr> appended for one row of the response.
RenderRow(v, row) ==
    [classList |-> RowClassList(row),
     cells |-> IF v = "legacy" THEN LegacyCells(row) ELSE ExtendedCells(row)]

\* The <th> cells written for the fixed columns.
RenderHeader(v) ==
    [i \in 1..Len(Headers(v)) |->
        [text |-> Headers(v)[i],
         num |-> Headers(v)[i] # "PROGRAMA" /\ Headers(v)[i] # "ACAO"]]

\* data.forEach(rowData => ... tableBody.appendChild(tr))
RenderBody(v, data) == [i \in 1..Len(data) |-> RenderRow(v, data[i])]

(***************************************************************************)
(* Texts of the status elements, as token sequences.                       *)
(***************************************************************************)
Includes(text, token) == \E i \in DOMAIN text : text[i] = token

\* new Date().getFullYear(), read when the page runs.
currentYear == "2026"

LoadingChart == <<"Carregando grafico historico (2010-2025)...">>
LoadingTable(ano) == <<"Consultando SIOP para", ano, ", aguarde...">>
InvalidYear == <<"Ano invalido selecionado.">>
TableError(ano, message) == <<"Erro ao consultar", ano, ":">> \o message
Compiling == <<"O robo ainda esta compilando os dados historicos.">>
ChartError(message) == <<"Erro ao carregar o grafico:">> \o message

(***************************************************************************)
(* What the network can answer.                                            *)
(***************************************************************************)
Statuses == {200, 404, 500}
StatusText(status) ==
    CASE status = 200 -> "200" [] status = 404 -> "404" [] OTHER -> "500"
Ok(status) == status >= 200 /\ status <= 299

Details == {<<"Not", "Found">>, <<"Falha", "404", "no SIOP">>}

\* The message of the SyntaxError of response.json(): the engine words it,
\* and may quote the start of the body in it.
ParseMessages == {<<"Unexpected token">>, <<"Unexpected token", "404">>}
NotAFunction == <<"data.forEach is not a function">>
NoDatasets == <<"Cannot read properties of undefined (reading 'forEach')">>
ChartLibError == <<"Chart is not defined">>
FailedToFetch == <<"Failed to fetch">>

Body(kind, rows, detail, labels, message) ==
    [kind |-> kind, rows |-> rows, detail |-> detail, labels |-> labels,
     message |-> message]
RowsBody(rows) == Body("rows", rows, <<>>, <<>>, <<>>)
DetailBody(detail) == Body("detail", <<>>, detail, <<>>, <<>>)
ObjectBody == Body("object", <<>>, <<>>, <<>>, <<>>)
NotJsonBody(message) == Body("notjson", <<>>, <<>>, <<>>, message)
ChartBody(labels) == Body("chart", <<>>, <<>>, labels, <<>>)

\* Rows the table responses of the view are built from.
ActionRow == ApiRow(Str("0612"), Str("123H"), Num(MaxAmount), Num(MaxAmount),
                    Num(1), Num(1), Num(1), Num(0))
ProgramRow == ApiRow(Str("0612"), Null, Num(MaxAmount), Num(MaxAmount),
                     Num(1), Num(1), Num(1), Num(0))
TotalRow == ApiRow(Str("Total Geral"), Null, Num(MaxAmount), Num(MaxAmount),
                   Undef, Num(0), Null, Num(0))
RowSeqs == {<<>>, <<ProgramRow, ActionRow, TotalRow>>}

LabelSeqs == {<<>>, <<"2024", "2025">>}

\* Bodies that come with an ok status and with an error status.
OkTableBodies ==
    {RowsBody(r) : r \in RowSeqs} \cup {ObjectBody}
    \cup {NotJsonBody(<<"Unexpected token">>)}
OkChartBodies ==
    {ChartBody(l) : l \in LabelSeqs} \cup {ObjectBody}
    \cup {NotJsonBody(m) : m \in ParseMessages}
ErrorBodies ==
    {DetailBody(d) : d \in Details} \cup {ObjectBody}
    \cup {NotJsonBody(m) : m \in ParseMessages}

\* An outcome of a fetch: the promise of fetch() rejects (net), or a
\* response with a status and a body arrives.  libOk: new Chart() returns.
Outcome(net, status, body, libOk) ==
    [net |-> net, status |-> status, body |-> body, libOk |-> libOk]
NoOutcome == Outcome(FALSE, 0, ObjectBody, TRUE)
Responses(okBodies) ==
    {Outcome(FALSE, st, b, TRUE) : st \in {x \in Statuses : Ok(x)}, b \in okBodies}
    \cup {Outcome(FALSE, st, b, TRUE) :
            st \in {x \in Statuses : ~Ok(x)}, b \in ErrorBodies}
TableOutcomes ==
    {Outcome(TRUE, 0, ObjectBody, TRUE)} \cup Responses(OkTableBodies)
ChartOutcomes ==
    {Outcome(TRUE, 0, ObjectBody, TRUE)} \cup Responses(OkChartBodies)
    \cup {Outcome(FALSE, 200, ChartBody(l), FALSE) : l \in LabelSeqs}

\* throw new Error(data.detail || `Erro HTTP ${response.status}`)
HttpErrorMessage(out) ==
    IF out.body.kind = "detail" /\ out.body.detail # <<>>
    THEN out.body.detail
    ELSE <<"Erro HTTP", StatusText(out.status)>>

(***************************************************************************)
(* The DOM of the view as one record, so that a handler that calls         *)
(* another composes their effects.                                         *)
(***************************************************************************)
NoChart == [created |-> FALSE, labels |-> <<>>]
Chart(labels) == [created |-> TRUE, labels |-> labels]

Dom ==
    [inputAno |-> inputAno,
     btnConsultarDisabled |-> btnConsultarDisabled,
     loadingTextContent |-> loadingTextContent,
     loadingTextDisplay |-> loadingTextDisplay,
     errorTextContent |-> errorTextContent,
     errorTextDisplay |-> errorTextDisplay,
     tableContainerDisplay |-> tableContainerDisplay,
     tableHeader |-> tableHeader,
     tableBody |-> tableBody,
     pacChart |-> pacChart]

SetDom(dom) ==
    /\ inputAno' = dom.inputAno
    /\ btnConsultarDisabled' = dom.btnConsultarDisabled
    /\ loadingTextContent' = dom.loadingTextContent
    /\ loadingTextDisplay' = dom.loadingTextDisplay
    /\ errorTextContent' = dom.errorTextContent
    /\ errorTextDisplay' = dom.errorTextDisplay
    /\ tableContainerDisplay' = dom.tableContainerDisplay
    /\ tableHeader' = dom.tableHeader
    /\ tableBody' = dom.tableBody
    /\ pacChart' = dom.pacChart

(***************************************************************************)
(* fetchAndRenderTable(ano), up to its first await.                        *)
(***************************************************************************)
\* if (!ano): the call returns without a fetch.
IssuesFetch(ano) == ano # ""

\* Mutant: the button is left enabled while the fetch is pending.
TableStartKeepsButton(dom, ano) ==
    IF ~IssuesFetch(ano)
    THEN [dom EXCEPT !.errorTextContent = InvalidYear,
                     !.errorTextDisplay = "block",
                     !.tableContainerDisplay = "none"]
    ELSE [dom EXCEPT !.inputAno = ano,
                     !.loadingTextContent = LoadingTable(ano),
                     !.loadingTextDisplay = "block",
                     !.errorTextDisplay = "none",
                     !.tableContainerDisplay = "none"]

TableStart(dom, ano) ==
    IF ~IssuesFetch(ano)
    THEN [dom EXCEPT !.errorTextContent = InvalidYear,
                     !.errorTextDisplay = "block",
                     !.tableContainerDisplay = "none"]
    ELSE [dom EXCEPT !.inputAno = ano,
                     !.btnConsultarDisabled = TRUE,
                     !.loadingTextContent = LoadingTable(ano),
                     !.loadingTextDisplay = "block",
                     !.errorTextDisplay = "none",
                     !.tableContainerDisplay = "none"]

(***************************************************************************)
(* fetchAndRenderTable(ano), from the settling of its fetch to its end.    *)
(***************************************************************************)
\* The response is rendered to the end: ok status and an array body.
TableSuccess(out) == ~out.net /\ Ok(out.status) /\ out.body.kind = "rows"

\* The error is thrown after the table was cleared and the header written:
\* ok status and a JSON body that has no forEach.
ThrowsAfterClear(out) ==
    ~out.net /\ Ok(out.status) /\ out.body.kind \notin {"rows", "notjson"}

\* err.message of the catch block.
TableErrorMessage(out) ==
    IF out.net THEN FailedToFetch
    ELSE IF out.body.kind = "notjson" THEN out.body.message
    ELSE IF ~Ok(out.status) THEN HttpErrorMessage(out)
    ELSE NotAFunction

\* Mutant: the table is cleared and the header written before response.ok
\* is looked at.
TableSettleClearsFirst(v, dom, ano, out) ==
    LET cleared == [dom EXCEPT !.tableHeader = RenderHeader(v),
                               !.tableBody = <<>>]
        tried ==
            IF TableSuccess(out)
            THEN [cleared EXCEPT !.tableBody = RenderBody(v, out.body.rows),
                                 !.tableContainerDisplay = "block"]
            ELSE [(IF out.net \/ out.body.kind = "notjson" THEN dom ELSE cleared)
                  EXCEPT
                     !.errorTextContent = TableError(ano, TableErrorMessage(out)),
                     !.errorTextDisplay = "block"]
    IN  [tried EXCEPT !.btnConsultarDisabled = FALSE,
                      !.loadingTextDisplay = "none"]

\* Mutant: a request-generation check, the response of a fetch for a year
\* other than the one last asked for is dropped.
TableSettleDropsStale(v, dom, ano, out) ==
    LET cleared == [dom EXCEPT !.tableHeader = RenderHeader(v),
                               !.tableBody = <<>>]
        tried ==
            IF TableSuccess(out)
            THEN IF ano # dom.inputAno THEN dom
                 ELSE [cleared EXCEPT
                          !.tableBody = RenderBody(v, out.body.rows),
                          !.tableContainerDisplay = "block"]
            ELSE [(IF ThrowsAfterClear(out) THEN cleared ELSE dom) EXCEPT
                     !.errorTextContent = TableError(ano, TableErrorMessage(out)),
                     !.errorTextDisplay = "block"]
    IN  [tried EXCEPT !.btnConsultarDisabled = FALSE,
                      !.loadingTextDisplay = "none"]

\* Mutant: the header and the body are written without being cleared
\* first.
TableSettleAppends(v, dom, ano, out) ==
    LET tried ==
            IF TableSuccess(out)
            THEN [dom EXCEPT
                     !.tableHeader = dom.tableHeader \o RenderHeader(v),
                     !.tableBody = dom.tableBody \o RenderBody(v, out.body.rows),
                     !.tableContainerDisplay = "block"]
            ELSE [dom EXCEPT
                     !.errorTextContent = TableError(ano, TableErrorMessage(out)),
                     !.errorTextDisplay = "block"]
    IN  [tried EXCEPT !.btnConsultarDisabled = FALSE,
                      !.loadingTextDisplay = "none"]

\* try { render } catch { error text } finally { button, loading text }
TableSettle(v, dom, ano, out) ==
    LET cleared == [dom EXCEPT !.tableHeader = RenderHeader(v),
                               !.tableBody = <<>>]
        tried ==
            IF TableSuccess(out)
            THEN [cleared EXCEPT !.tableBody = RenderBody(v, out.body.rows),
                                 !.tableContainerDisplay = "block"]
            ELSE [(IF ThrowsAfterClear(out) THEN cleared ELSE dom) EXCEPT
                     !.errorTextContent = TableError(ano, TableErrorMessage(out)),
                     !.errorTextDisplay = "block"]
    IN  [tried EXCEPT !.btnConsultarDisabled = FALSE,
                      !.loadingTextDisplay = "none"]

(***************************************************************************)
(* fetchAndRenderChart, from the settling of its fetch to its end.         *)
(***************************************************************************)
ChartSuccess(out) ==
    ~out.net /\ Ok(out.status) /\ out.body.kind = "chart" /\ out.libOk

ChartErrorMessage(out) ==
    IF out.net THEN FailedToFetch
    ELSE IF out.body.kind = "notjson" THEN out.body.message
    ELSE IF ~Ok(out.status) THEN HttpErrorMessage(out)
    ELSE IF out.body.kind # "chart" THEN NoDatasets
    ELSE ChartLibError

\* if (err.message.includes("404"))
ChartFailureText(message) ==
    IF Includes(message, "404") THEN Compiling ELSE ChartError(message)

\* Mutant: the catch block ends without the call of fetchAndRenderTable.
ChartNextYearNoFallback(out) ==
    IF ChartSuccess(out) /\ out.body.labels # <<>>
    THEN out.body.labels[Len(out.body.labels)]
    ELSE ""

\* The year of the table fetch the handler ends with: the last label, or
\* the current year in the catch block ("" is undefined, for no label).
ChartNextYear(out) ==
    IF ChartSuccess(out)
    THEN IF out.body.labels = <<>> THEN ""
         ELSE out.body.labels[Len(out.body.labels)]
    ELSE currentYear

ChartSettle(dom, out) ==
    LET handled ==
            IF ChartSuccess(out)
            THEN [dom EXCEPT !.pacChart = Chart(out.body.labels)]
            ELSE [dom EXCEPT
                     !.errorTextContent = ChartFailureText(ChartErrorMessage(out)),
                     !.errorTextDisplay = "block",
                     !.loadingTextDisplay = "none"]
    IN  TableStart(handled, ChartNextYear(out))

(***************************************************************************)
(* Fetches in flight and the record of what was sent and settled.          *)
(***************************************************************************)
Request(id, kind, ano) == [id |-> id, kind |-> kind, ano |-> ano]
Event(op, id, out) == [op |-> op, id |-> id, out |-> out]

Ids(reqs) == {r.id : r \in reqs}

\* fetch(...): the request joins those in flight; "by" is the caller and
\* "pending" the fetches in flight when it was sent.
Fetch(reqs, kind, ano, by) ==
    LET id == Len(sent) + 1
    IN  /\ requests' = reqs \cup {Request(id, kind, ano)}
        /\ sent' = Append(sent, [id |-> id, kind |-> kind, ano |-> ano,
                                 by |-> by, pending |-> Ids(reqs)])

\* fetchAndRenderTable(ano) called by "by" on the DOM "dom", with "reqs" in
\* flight.
CallTable(dom, reqs, ano, by) ==
    /\ SetDom(TableStart(dom, ano))
    /\ IF IssuesFetch(ano)
       THEN Fetch(reqs, "table", ano, by)
       ELSE requests' = reqs /\ sent' = sent

UserFetches ==
    Cardinality({i \in DOMAIN sent : sent[i].by \in {"button", "bar"}})

(***************************************************************************)
(* The view: initial state and events.                                     *)
(***************************************************************************)
NoTr == [classList |-> {}, cells |-> <<>>]
IdleRow == ApiRow(Undef, Undef, Undef, Undef, Undef, Undef, Undef, Undef)
InputYears == {""}

\* The DOMContentLoaded listener has run: initYear, the click listener, and
\* fetchAndRenderChart() up to its await.
InitView ==
    /\ variant \in {"legacy", "extended"}
    /\ inputAno = currentYear
    /\ btnConsultarDisabled = FALSE
    /\ loadingTextContent = LoadingChart
    /\ loadingTextDisplay = "block"
    /\ errorTextContent = <<>>
    /\ errorTextDisplay = "none"
    /\ tableContainerDisplay = "none"
    /\ tableHeader = <<>>
    /\ tableBody = <<>>
    /\ pacChart = NoChart
    /\ requests = {Request(1, "chart", "")}
    /\ sent = <<[id |-> 1, kind |-> "chart", ano |-> "", by |-> "load",
                 pending |-> {}]>>
    /\ completed = <<>>
    /\ last = Event("load", 1, NoOutcome)

\* The processing page is not the open page: its elements are absent.
IdleProcessing ==
    /\ dataValue = <<>>
    /\ sectionsValue = <<>>
    /\ keywordsValue = <<>>
    /\ btnProcessarDisabled = FALSE
    /\ btnProcessarIADisabled = FALSE
    /\ btnProcessarValorDisabled = FALSE
    /\ btnCopiarDisabled = FALSE
    /\ previewTextContent = <<>>
    /\ previewLoading = FALSE

\* The page of the static store is not the open page.
IdleStore ==
    /\ PAC_DB = <<>>
    /\ selectAno = ""
    /\ tbody = <<>>
    /\ graficoAno = ""
    /\ raised = FALSE

\* The panel is not the open page.
IdlePanel ==
    /\ dateInputValue = <<>>
    /\ secChecked = {}
    /\ keywordsInputValue = <<>>
    /\ loadingDivHidden = TRUE
    /\ resultsAreaInnerHTML = <<>>
    /\ formData = <<>>

Init ==
    /\ InitView
    /\ rowData = IdleRow
    /\ tr = NoTr
    /\ novoIndicador = Num(0)
    /\ IdleProcessing
    /\ IdleStore
    /\ IdlePanel

\* The user edits the year input.
TypeAno(value) ==
    /\ inputAno' = value
    /\ last' = Event("type", 0, NoOutcome)
    /\ UNCHANGED <<variant, btnConsultarDisabled, loadingTextContent,
                   loadingTextDisplay, errorTextContent, errorTextDisplay,
                   tableContainerDisplay, tableHeader, tableBody, pacChart,
                   requests, sent, completed, rowVars, pageVars>>

\* Mutant: the button is wired to fetchAndRenderChart.
ClickConsultarReloadsChart ==
    /\ ~btnConsultarDisabled
    /\ UserFetches < MaxClicks
    /\ SetDom([Dom EXCEPT !.loadingTextContent = LoadingChart,
                          !.loadingTextDisplay = "block",
                          !.errorTextDisplay = "none",
                          !.tableContainerDisplay = "none"])
    /\ Fetch(requests, "chart", "", "button")
    /\ last' = Event("button", 0, NoOutcome)
    /\ UNCHANGED <<variant, completed, rowVars, pageVars>>

\* btnConsultar click listener; a disabled button delivers no click.
ClickConsultar ==
    /\ ~btnConsultarDisabled
    /\ IssuesFetch(inputAno) => UserFetches < MaxClicks
    /\ CallTable(Dom, requests, inputAno, "button")
    /\ last' = Event("button", 0, NoOutcome)
    /\ UNCHANGED <<variant, completed, rowVars, pageVars>>

\* The series (datasets) of the stacked bars.
Datasets == 5

\* pacChart.getElementsAtEventForMode(e, 'index', { intersect: true }, true)
\* for a click on the segment of "series" in the bar at index "hit" (0: the
\* click is on no bar): the elements of every series at that index, in the
\* order of the series.
activePoints(hit, series) ==
    IF hit = 0 THEN <<>>
    ELSE [d \in 1..Datasets |-> [datasetIndex |-> d, index |-> hit]]

\* Mutant: the label is looked up by the series of the element.
clickedIndexOfSeries(points) == points[1].datasetIndex

\* activePoints[0].index
clickedIndex(points) == points[1].index

\* onClick of the chart.
ChartClick(hit, series) ==
    /\ pacChart.created
    /\ hit \in 0..Len(pacChart.labels)
    /\ IF Len(activePoints(hit, series)) > 0
       THEN /\ UserFetches < MaxClicks
            /\ CallTable(Dom, requests,
                         pacChart.labels[clickedIndex(activePoints(hit, series))],
                         "bar")
       ELSE UNCHANGED <<uiVars, requests, sent>>
    /\ last' = Event("bar", hit, NoOutcome)
    /\ UNCHANGED <<variant, completed, rowVars, pageVars>>

\* Mutant: the catch block of fetchAndRenderTable fetches the year again.
TableDoneRetries(r, out) ==
    /\ r \in requests
    /\ r.kind = "table"
    /\ SetDom(TableSettle(variant, Dom, r.ano, out))
    /\ IF TableSuccess(out) \/ Len(sent) > MaxClicks + 2
       THEN requests' = requests \ {r} /\ sent' = sent
       ELSE Fetch(requests \ {r}, "table", r.ano, "catch")
    /\ completed' = Append(completed,
            [id |-> r.id, kind |-> "table", success |-> TableSuccess(out),
             rows |-> IF TableSuccess(out) THEN out.body.rows ELSE <<>>])
    /\ last' = Event("tableDone", r.id, out)
    /\ UNCHANGED <<variant, rowVars, pageVars>>

\* The fetch of a table request settles and the rest of
\* fetchAndRenderTable runs.
TableDone(r, out) ==
    /\ r \in requests
    /\ r.kind = "table"
    /\ SetDom(TableSettle(variant, Dom, r.ano, out))
    /\ requests' = requests \ {r}
    /\ completed' = Append(completed,
            [id |-> r.id, kind |-> "table", success |-> TableSuccess(out),
             rows |-> IF TableSuccess(out) THEN out.body.rows ELSE <<>>])
    /\ last' = Event("tableDone", r.id, out)
    /\ UNCHANGED <<variant, sent, rowVars, pageVars>>

\* The fetch of the chart request settles and the rest of
\* fetchAndRenderChart runs, its call of fetchAndRenderTable included.
ChartDone(r, out) ==
    /\ r \in requests
    /\ r.kind = "chart"
    /\ CallTable(ChartSettle(Dom, out), requests \ {r}, ChartNextYear(out),
                 IF ChartSuccess(out) THEN "chart-ok" ELSE "chart-catch")
    /\ completed' = Append(completed,
            [id |-> r.id, kind |-> "chart", success |-> ChartSuccess(out),
             rows |-> <<>>])
    /\ last' = Event("chartDone", r.id, out)
    /\ UNCHANGED <<variant, rowVars, pageVars>>

Next ==
    \/ \E value \in InputYears : TypeAno(value)
    \/ ClickConsultar
    \/ \E hit \in 0..2, series \in 1..Datasets : ChartClick(hit, series)
    \/ \E r \in requests, out \in TableOutcomes : TableDone(r, out)
    \/ \E r \in requests, out \in ChartOutcomes : ChartDone(r, out)

Spec == Init /\ [][Next]_vars

(***************************************************************************)
(* The row callback on its own: one row of a response, drawn from the      *)
(* values a JSON row can carry, is rendered for either table.              *)
(***************************************************************************)
Amounts == {Num(i) : i \in 0..MaxAmount}
NumericInputs == Amounts \cup {Undef, Null, Str("n/d")}
Programas == {Str("Total Geral"), Str("0612"), Null}
Acoes == {Null, Undef, Str("123H")}

RowInputs ==
    {ApiRow(p, a, Num(MaxAmount), dot, disp, emp, liq, Num(0)) :
        p \in Programas, a \in Acoes, dot \in NumericInputs,
        disp \in NumericInputs, emp \in NumericInputs,
        liq \in {Undef, Frac(1, 200)}}

InitRow ==
    /\ InitView
    /\ rowData \in RowInputs
    /\ tr = NoTr
    /\ novoIndicador = Num(0)
    /\ IdleProcessing
    /\ IdleStore
    /\ IdlePanel

\* data.forEach(rowData => { ... }) for one rowData.
RowCallback ==
    /\ tr = NoTr
    /\ tr' = RenderRow(variant, rowData)
    /\ novoIndicador' =
          IF variant = "extended" THEN NovoIndicador(rowData) ELSE novoIndicador
    /\ UNCHANGED <<variant, uiVars, netVars, rowData, pageVars>>

RowSpec == InitRow /\ [][RowCallback]_vars

(***************************************************************************)
(* Claims about the row callback (checked under RowSpec).                  *)
(***************************************************************************)
IsTotal(row) == row["PROGRAMA"] = Str("Total Geral")
Rendered == tr # NoTr
Integral(value) == IsNumber(value) /\ value.d = 1
ZeroOrMissing(value) == value \in {Num(0), Undef, Null}

\* C1: every rendered row carries exactly one kind class: row-total when
\* PROGRAMA is "Total Geral", otherwise row-programa when ACAO is null,
\* otherwise row-acao; the total wins over a null ACAO.
C1_RowClassification ==
    Rendered =>
        /\ Cardinality(tr.classList) = 1
        /\ tr.classList \subseteq {"row-total", "row-programa", "row-acao"}
        /\ "row-total" \in tr.classList <=> IsTotal(rowData)
        /\ "row-programa" \in tr.classList <=>
              ~IsTotal(rowData) /\ rowData["ACAO"] = Null
        /\ "row-acao" \in tr.classList <=>
              ~IsTotal(rowData) /\ rowData["ACAO"] # Null

\* C1 witness: the precedence case, a total row whose ACAO is null.
C1_Witness ==
    /\ Rendered
    /\ IsTotal(rowData)
    /\ rowData["ACAO"] = Null
    /\ tr.classList = {"row-total"}

\* C2: in the 9-column table the indicator of a row is
\* (EMPENHADO - DISPONIVEL) / EMPENHADO when EMPENHADO is a non-zero amount
\* (a missing DISPONIVEL counting as 0), and 0 when EMPENHADO is 0 or
\* missing whatever DISPONIVEL is; the last cell shows that indicator.
C2_ExtendedIndicator ==
    (Rendered /\ variant = "extended") =>
        LET e == rowData["EMPENHADO (c)"]
            d == rowData["DISPONIVEL"]
        IN  /\ ZeroOrMissing(e) => novoIndicador = Num(0)
            /\ (Integral(e) /\ e.n # 0 /\ Integral(d)) =>
                  /\ novoIndicador.d > 0
                  /\ novoIndicador.n * e.n = (e.n - d.n) * novoIndicador.d
            /\ (Integral(e) /\ e.n # 0 /\ d \in {Undef, Null}) =>
                  /\ novoIndicador.d > 0
                  /\ novoIndicador.n = novoIndicador.d
            /\ tr.cells[9].text = formatPercentExtended(novoIndicador)

\* C2 witness: EMPENHADO 2 and DISPONIVEL 1 give the indicator 1/2, "50,0%".
C2_Witness ==
    /\ Rendered
    /\ variant = "extended"
    /\ rowData["EMPENHADO (c)"] = Num(2)
    /\ rowData["DISPONIVEL"] = Num(1)
    /\ novoIndicador.n * 2 = novoIndicador.d
    /\ tr.cells[9].text = Text("percent", FALSE, 500, "")

InFlight(kind) == {r \in requests : r.kind = kind}
CompletedIds == {completed[c].id : c \in DOMAIN completed}

\* The event handled last is an error response (a status that is not ok)
\* to a request of this kind.
ErrorResponse(e, op) == e.op = op /\ ~e.out.net /\ ~Ok(e.out.status)

\* The text after "Erro ao consultar <ano>:" for an error response.
UpstreamMessage(out) ==
    CASE out.body.kind = "detail" -> out.body.detail
      [] out.body.kind = "notjson" -> out.body.message
      [] OTHER -> <<"Erro HTTP", StatusText(out.status)>>

\* C4 (as amended): an error response to a table request appends no row,
\* leaves the table header and body as they were, and shows the error text
\* "Erro ao consultar <ano>:" followed by the body's detail when the body is
\* JSON with a detail, by "Erro HTTP <status>" when it is JSON without one,
\* and by the parser's message when it is not JSON.
C4_ErrorResponseKeepsTable ==
    [][(Len(completed') = Len(completed) + 1 /\ ErrorResponse(last', "tableDone"))
        => /\ tableHeader' = tableHeader
           /\ tableBody' = tableBody
           /\ errorTextDisplay' = "block"
           /\ errorTextContent' =
                 <<"Erro ao consultar", sent[last'.id].ano, ":">>
                     \o UpstreamMessage(last'.out)]_vars

\* C4 witness: an error response with a detail arrived while the table held
\* the rows of an earlier response, and the rows are still there.
C4_Witness ==
    /\ ErrorResponse(last, "tableDone")
    /\ last.out.body.kind = "detail"
    /\ tableBody # <<>>
    /\ errorTextDisplay = "block"

\* C4 (original): ... and displays an error text carrying the upstream
\* status and message.
C4_ErrorCarriesStatusAndMessage ==
    [][(Len(completed') = Len(completed) + 1 /\ ErrorResponse(last', "tableDone"))
        => /\ tableHeader' = tableHeader
           /\ tableBody' = tableBody
           /\ errorTextDisplay' = "block"
           /\ Includes(errorTextContent', StatusText(last'.out.status))
           /\ \A i \in DOMAIN last'.out.body.detail :
                 Includes(errorTextContent', last'.out.body.detail[i])]_vars

\* C5 (as amended): at most one chart request is outstanding in every
\* reachable state; table requests are not limited to one.
C5_AtMostOneChartRequest == Cardinality(InFlight("chart")) <= 1

\* C5 witness: the chart request and a table request started by the button
\* are outstanding together.
C5_Witness ==
    /\ Cardinality(InFlight("chart")) = 1
    /\ Cardinality(InFlight("table")) = 1
    /\ last.op = "button"

\* C5 (original): at most one table request and at most one chart request
\* is outstanding in every reachable state.
C5_AtMostOneOfEach ==
    /\ Cardinality(InFlight("table")) <= 1
    /\ Cardinality(InFlight("chart")) <= 1

\* Two fetches were in flight together.
Overlapped(a, b) == a \in sent[b].pending \/ b \in sent[a].pending

\* An earlier successful table response whose fetch overlapped the fetch of
\* the response handled last.
EarlierOverlapping(c) ==
    /\ c \in 1..(Len(completed) - 1)
    /\ completed[c].kind = "table"
    /\ completed[c].success
    /\ Overlapped(completed[c].id, last.id)

\* C6: a fetch started while another is in flight cancels nothing (every
\* fetch sent is in flight or has settled), and when the second of two
\* overlapping table fetches has been rendered the table shows exactly the
\* rows of that response, the one that arrived last.
C6_LastResponseWins ==
    /\ \A i \in DOMAIN sent :
          sent[i].id \in Ids(requests) \cup CompletedIds
    /\ (/\ last.op = "tableDone"
        /\ TableSuccess(last.out)
        /\ \E c \in DOMAIN completed : EarlierOverlapping(c))
       => /\ tableBody = RenderBody(variant, last.out.body.rows)
          /\ tableHeader = RenderHeader(variant)
          /\ tableContainerDisplay = "block"

\* C6 witness: the fetch issued first answered last, with other rows than
\* the fetch issued after it, and the table shows the rows of the first.
C6_Witness ==
    /\ last.op = "tableDone"
    /\ TableSuccess(last.out)
    /\ \E c \in DOMAIN completed :
          /\ EarlierOverlapping(c)
          /\ completed[c].id > last.id
          /\ completed[c].rows # last.out.body.rows
    /\ tableBody = RenderBody(variant, last.out.body.rows)
    /\ tableBody # <<>>

LoadingState ==
    /\ loadingTextDisplay = "block"
    /\ btnConsultarDisabled
    /\ tableContainerDisplay = "none"

\* A table fetch is in flight and no fetch has settled since it was sent.
Hung ==
    \E i \in DOMAIN sent :
        /\ sent[i].kind = "table"
        /\ sent[i].pending \subseteq Ids(requests)
        /\ \A j \in i..Len(sent) : sent[j].id \in Ids(requests)

\* C7: as long as no fetch settles after a table fetch was sent the view is
\* in the loading state (loading text shown, button disabled, table
\* hidden), and no step that settles no fetch leaves the loading state
\* while a table fetch is in flight.
C7_NoTimeout ==
    /\ [](Hung => LoadingState)
    /\ [][(LoadingState /\ InFlight("table") # {} /\ completed' = completed)
            => LoadingState']_vars

\* C7 witness: a table fetch hangs while the user goes on editing the year
\* input, and the view is still loading.
C7_Witness ==
    /\ Hung
    /\ last.op = "type"
    /\ LoadingState

\* C8: an error response to the chart request with a JSON body gives the
\* "still compiling" text exactly when the status is 404 and the generic
\* "Erro ao carregar o grafico" text for any other status, with or without
\* a detail in the body.
C8_NotFoundDistinct ==
    (ErrorResponse(last, "chartDone") /\ last.out.body.kind \in {"detail", "object"})
    => IF last.out.status = 404
       THEN errorTextContent = Compiling
       ELSE /\ errorTextContent # <<>>
            /\ errorTextContent[1] = "Erro ao carregar o grafico:"

\* The table fetches issued by fetchAndRenderChart.
SentByChart ==
    {i \in DOMAIN sent : sent[i].by \in {"chart-ok", "chart-catch"}}

\* C9: once the chart request was answered 404 fetchAndRenderChart has
\* issued exactly one table request, for the current year, and there is no
\* chart.
C9_NotFoundFallback ==
    (ErrorResponse(last, "chartDone") /\ last.out.status = 404)
    => /\ SentByChart = {Len(sent)}
       /\ sent[Len(sent)].kind = "table"
       /\ sent[Len(sent)].ano = currentYear
       /\ sent[Len(sent)].by = "chart-catch"
       /\ Request(Len(sent), "table", currentYear) \in requests
       /\ ~pacChart.created

\* C9 witness: the chart request was answered 404 and the fallback fetch is
\* in flight.
C9_Witness ==
    /\ ErrorResponse(last, "chartDone")
    /\ last.out.status = 404
    /\ sent[Len(sent)].by = "chart-catch"
    /\ Request(Len(sent), "table", currentYear) \in requests

\* C10: when fetchAndRenderChart has handled a failure of the chart request
\* the error text element is visible and shows the chart failure message.
C10_ChartFailureVisible ==
    (last.op = "chartDone" /\ ~ChartSuccess(last.out))
    => /\ errorTextDisplay = "block"
       /\ errorTextContent = ChartFailureText(ChartErrorMessage(last.out))


(***************************************************************************)
(* The processing page (frontend/app.js, static/app.js): texts of the      *)
(* form.  A field value is a sequence of tokens; " " is white space and    *)
(* "," the separator of the keywords.                                      *)
(***************************************************************************)
MaxPosts == 2       \* POSTs of the processing page in one run

RECURSIVE TrimStart(_)
TrimStart(value) ==
    IF value # <<>> /\ Head(value) = " " THEN TrimStart(Tail(value)) ELSE value

RECURSIVE TrimEnd(_)
TrimEnd(value) ==
    IF value # <<>> /\ value[Len(value)] = " "
    THEN TrimEnd(SubSeq(value, 1, Len(value) - 1))
    ELSE value

\* String.prototype.trim
Trim(value) == TrimEnd(TrimStart(value))

\* new Date().toISOString().slice(0, 10)
today == <<"2026-11-05">>
DefaultSections == <<"DO1,DO2">>

\* keywords.split(',').map(k => k.trim()).filter(k => k.length > 0), for
\* keywords whose words are single tokens.
RECURSIVE keywordsList(_)
keywordsList(keywords) ==
    IF keywords = <<>> THEN <<>>
    ELSE IF Head(keywords) \in {",", " "} THEN keywordsList(Tail(keywords))
    ELSE <<Head(keywords)>> \o keywordsList(Tail(keywords))

\* JSON.stringify of an array of strings.
JSONStringify(list) == <<"[">> \o list \o <<"]">>

\* The endpoints the buttons are wired to.
ProcessarInlabs == <<"/processar", "-inlabs">>
ProcessarInlabsIA == <<"/processar", "-inlabs", "-ia">>
ProcessarDouIA == <<"/processar", "-dou", "-ia">>
ProcessarValorIA == <<"/processar", "-valor", "-ia">>

\* String.prototype.startsWith
StartsWith(text, prefix) ==
    Len(prefix) <= Len(text) /\ SubSeq(text, 1, Len(prefix)) = prefix

\* The buttons a script finds on its page and the endpoint each posts to.
Buttons(v) ==
    IF v = "static"
    THEN {"btnProcessar", "btnProcessarIA", "btnProcessarValor"}
    ELSE {"btnProcessar", "btnProcessarIA"}

EndpointOf(v, button) ==
    IF button = "btnProcessar" THEN ProcessarInlabs
    ELSE IF button = "btnProcessarIA"
         THEN (IF v = "static" THEN ProcessarDouIA ELSE ProcessarInlabsIA)
    ELSE ProcessarValorIA

\* static/app.js adds the DOU fields only for these endpoints.
IsDouEndpoint(endpoint) ==
    \/ StartsWith(endpoint, <<"/processar", "-dou">>)
    \/ StartsWith(endpoint, <<"/processar", "-inlabs">>)

Field(name, value) == [name |-> name, value |-> value]

\* The keywords_json field, when the list of keywords is not empty.
KeywordsFields(keywords) ==
    IF keywords # <<>> /\ keywordsList(keywords) # <<>>
    THEN <<Field("keywords_json", JSONStringify(keywordsList(keywords)))>>
    ELSE <<>>

\* Mutant: static/app.js with the sections field appended for every
\* endpoint.
FormDataWithSections(v, endpoint, data, sections, keywords) ==
    <<Field("data", data), Field("sections", sections)>>
    \o (IF v = "frontend" \/ IsDouEndpoint(endpoint)
        THEN KeywordsFields(keywords) ELSE <<>>)

\* The FormData of handleProcessing(endpoint): data, sections and keywords
\* are the locals of the same names.
FormData(v, endpoint, data, sections, keywords) ==
    <<Field("data", data)>>
    \o (IF v = "frontend" \/ IsDouEndpoint(endpoint)
        THEN <<Field("sections", sections)>> \o KeywordsFields(keywords)
        ELSE <<>>)

\* Texts of the preview.
InformeData == <<"Informe a data (YYYY-MM-DD).">>
SemResultados == <<"(Sem resultados)">>
ProcessingText(v, endpoint) ==
    IF v = "frontend"
    THEN (IF Includes(endpoint, "-ia")
          THEN <<"Processando com IA no INLABS">>
          ELSE <<"Processando (Rapido) no INLABS">>)
    ELSE IF StartsWith(endpoint, <<"/processar", "-valor">>)
         THEN <<"Buscando noticias no Valor Economico">>
    ELSE IF IsDouEndpoint(endpoint)
         THEN (IF Includes(endpoint, "-ia")
               THEN <<"Processando DOU com IA no INLABS">>
               ELSE <<"Processando DOU (Rapido) no INLABS">>)
    ELSE <<"Processando, aguarde">>

(***************************************************************************)
(* What a processing endpoint can answer.                                  *)
(***************************************************************************)
ReportBody(text) == [kind |-> "report", detail |-> <<>>, whatsapp_text |-> text]
OkReportBodies ==
    {ReportBody(<<"Relatorio", "PAC">>), ReportBody(<<>>),
     NotJsonBody(<<"Unexpected token">>)}
ProcessingOutcomes ==
    {Outcome(TRUE, 0, ObjectBody, TRUE)}
    \cup {Outcome(FALSE, 200, b, TRUE) : b \in OkReportBodies}
    \cup {Outcome(FALSE, 500, b, TRUE) :
            b \in {DetailBody(<<"Not", "Found">>), ObjectBody,
                   NotJsonBody(<<"Unexpected token">>)}}

(***************************************************************************)
(* The DOM of the processing page as one record.                           *)
(***************************************************************************)
ProcDom ==
    [dataValue |-> dataValue,
     sectionsValue |-> sectionsValue,
     keywordsValue |-> keywordsValue,
     btnProcessarDisabled |-> btnProcessarDisabled,
     btnProcessarIADisabled |-> btnProcessarIADisabled,
     btnProcessarValorDisabled |-> btnProcessarValorDisabled,
     btnCopiarDisabled |-> btnCopiarDisabled,
     previewTextContent |-> previewTextContent,
     previewLoading |-> previewLoading]

SetProcDom(dom) ==
    /\ dataValue' = dom.dataValue
    /\ sectionsValue' = dom.sectionsValue
    /\ keywordsValue' = dom.keywordsValue
    /\ btnProcessarDisabled' = dom.btnProcessarDisabled
    /\ btnProcessarIADisabled' = dom.btnProcessarIADisabled
    /\ btnProcessarValorDisabled' = dom.btnProcessarValorDisabled
    /\ btnCopiarDisabled' = dom.btnCopiarDisabled
    /\ previewTextContent' = dom.previewTextContent
    /\ previewLoading' = dom.previewLoading

Disabled(dom, button) ==
    IF button = "btnProcessar" THEN dom.btnProcessarDisabled
    ELSE IF button = "btnProcessarIA" THEN dom.btnProcessarIADisabled
    ELSE dom.btnProcessarValorDisabled

(***************************************************************************)
(* handleProcessing(endpoint), up to its await.                            *)
(***************************************************************************)
\* if (!data) { ...; return; }
PostsForm(dom) == Trim(dom.dataValue) # <<>>

\* The FormData the call builds from the fields of the page.
FormOf(v, dom, endpoint) ==
    FormData(v, endpoint, Trim(dom.dataValue),
             IF Trim(dom.sectionsValue) # <<>> THEN Trim(dom.sectionsValue)
             ELSE DefaultSections,
             Trim(dom.keywordsValue))

\* Mutant: handleProcessing disabling only the button of the fast search.
ProcessingStartDisablesFirst(v, dom, endpoint) ==
    IF ~PostsForm(dom)
    THEN [dom EXCEPT !.previewTextContent = InformeData]
    ELSE [dom EXCEPT
             !.btnProcessarDisabled = TRUE,
             !.btnCopiarDisabled = TRUE,
             !.previewLoading = TRUE,
             !.previewTextContent = ProcessingText(v, endpoint)]

ProcessingStart(v, dom, endpoint) ==
    IF ~PostsForm(dom)
    THEN [dom EXCEPT !.previewTextContent = InformeData]
    ELSE [dom EXCEPT
             !.btnProcessarDisabled = TRUE,
             !.btnProcessarIADisabled = TRUE,
             !.btnProcessarValorDisabled =
                 IF v = "static" THEN TRUE ELSE dom.btnProcessarValorDisabled,
             !.btnCopiarDisabled = TRUE,
             !.previewLoading = TRUE,
             !.previewTextContent = ProcessingText(v, endpoint)]

(***************************************************************************)
(* handleProcessing(endpoint), from the settling of its fetch to its end.  *)
(***************************************************************************)
\* The report was written to the preview.
ProcessingSuccess(out) == ~out.net /\ Ok(out.status)

\* body?.whatsapp_text || "(Sem resultados)"; a body that is not JSON is {}.
texto(out) ==
    IF out.body.kind = "report" /\ out.body.whatsapp_text # <<>>
    THEN out.body.whatsapp_text
    ELSE SemResultados

\* preview.textContent at the end of the call.
PreviewAfter(out) ==
    IF out.net THEN <<"Falha na requisicao:">> \o FailedToFetch
    ELSE IF ~Ok(out.status)
         THEN (IF out.body.kind = "detail" /\ out.body.detail # <<>>
               THEN <<"Erro:">> \o out.body.detail
               ELSE <<"Erro HTTP", StatusText(out.status)>>)
    ELSE texto(out)

\* Mutant: handleProcessing whose clean-up is skipped when the fetch
\* rejects.
ProcessingSettleNoFinally(v, dom, out) ==
    IF out.net
    THEN [dom EXCEPT !.previewTextContent = PreviewAfter(out)]
    ELSE [dom EXCEPT
             !.previewTextContent = PreviewAfter(out),
             !.btnCopiarDisabled =
                 IF ProcessingSuccess(out) THEN texto(out) = SemResultados
                 ELSE dom.btnCopiarDisabled,
             !.btnProcessarDisabled = FALSE,
             !.btnProcessarIADisabled = FALSE,
             !.btnProcessarValorDisabled =
                 IF v = "static" THEN FALSE ELSE dom.btnProcessarValorDisabled,
             !.previewLoading = FALSE]

\* try { ... } catch { ... } finally { buttons, loading class }
ProcessingSettle(v, dom, out) ==
    [dom EXCEPT
        !.previewTextContent = PreviewAfter(out),
        !.btnCopiarDisabled =
            IF ProcessingSuccess(out) THEN texto(out) = SemResultados
            ELSE dom.btnCopiarDisabled,
        !.btnProcessarDisabled = FALSE,
        !.btnProcessarIADisabled = FALSE,
        !.btnProcessarValorDisabled =
            IF v = "static" THEN FALSE ELSE dom.btnProcessarValorDisabled,
        !.previewLoading = FALSE]

(***************************************************************************)
(* The processing page: initial state and events.                          *)
(***************************************************************************)
DataValues == {<<>>, <<" ">>, today, <<"31/02/2025">>}
SectionsValues == {<<>>, <<"DO3">>}
KeywordsValues == {<<>>, <<",", " ">>, <<"fuzileiros", ",", " ", "PAC">>}

\* The chart view is not the open page: its elements are absent and no
\* fetch was sent.
IdleView ==
    /\ inputAno = ""
    /\ btnConsultarDisabled = FALSE
    /\ loadingTextContent = <<>>
    /\ loadingTextDisplay = "none"
    /\ errorTextContent = <<>>
    /\ errorTextDisplay = "none"
    /\ tableContainerDisplay = "none"
    /\ tableHeader = <<>>
    /\ tableBody = <<>>
    /\ pacChart = NoChart
    /\ requests = {}
    /\ sent = <<>>
    /\ completed = <<>>
    /\ last = Event("load", 0, NoOutcome)

\* No row is being rendered.
IdleRowCallback ==
    /\ rowData = IdleRow
    /\ tr = NoTr
    /\ novoIndicador = Num(0)

\* The DOMContentLoaded listener has run: initDate and the click
\* listeners.  The markup decides whether btnCopiar starts disabled.
InitProcessing ==
    /\ variant \in {"frontend", "static"}
    /\ IdleView
    /\ IdleRowCallback
    /\ IdleStore
    /\ IdlePanel
    /\ dataValue = today
    /\ sectionsValue = <<>>
    /\ keywordsValue = <<>>
    /\ btnProcessarDisabled = FALSE
    /\ btnProcessarIADisabled = FALSE
    /\ btnProcessarValorDisabled = FALSE
    /\ btnCopiarDisabled \in BOOLEAN
    /\ previewTextContent = <<>>
    /\ previewLoading = FALSE

\* The user edits the fields of the form.
TypeData(value) ==
    /\ dataValue' = value
    /\ last' = Event("type", 0, NoOutcome)
    /\ UNCHANGED <<variant, uiVars, requests, sent, completed, rowVars,
                   sectionsValue, keywordsValue, btnProcessarDisabled,
                   btnProcessarIADisabled, btnProcessarValorDisabled,
                   btnCopiarDisabled, previewTextContent, previewLoading,
                   storeVars, panelVars>>

TypeSections(value) ==
    /\ sectionsValue' = value
    /\ last' = Event("type", 0, NoOutcome)
    /\ UNCHANGED <<variant, uiVars, requests, sent, completed, rowVars,
                   dataValue, keywordsValue, btnProcessarDisabled,
                   btnProcessarIADisabled, btnProcessarValorDisabled,
                   btnCopiarDisabled, previewTextContent, previewLoading,
                   storeVars, panelVars>>

TypeKeywords(value) ==
    /\ keywordsValue' = value
    /\ last' = Event("type", 0, NoOutcome)
    /\ UNCHANGED <<variant, uiVars, requests, sent, completed, rowVars,
                   dataValue, sectionsValue, btnProcessarDisabled,
                   btnProcessarIADisabled, btnProcessarValorDisabled,
                   btnCopiarDisabled, previewTextContent, previewLoading,
                   storeVars, panelVars>>

\* fetch(`${API_BASE}${endpoint}`, { method: "POST", body: fd })
Post(endpoint, by, fd) ==
    LET id == Len(sent) + 1
    IN  /\ requests' = requests \cup {[id |-> id, kind |-> "process",
                                       endpoint |-> endpoint, fd |-> fd]}
        /\ sent' = Append(sent, [id |-> id, kind |-> "process",
                                 endpoint |-> endpoint, by |-> by,
                                 pending |-> Ids(requests)])

\* Click listener of a processing button; a disabled button delivers no
\* click.
ClickProcessar(button) ==
    /\ button \in Buttons(variant)
    /\ ~Disabled(ProcDom, button)
    /\ PostsForm(ProcDom) => Len(sent) < MaxPosts
    /\ SetProcDom(ProcessingStart(variant, ProcDom, EndpointOf(variant, button)))
    /\ IF PostsForm(ProcDom)
       THEN Post(EndpointOf(variant, button), button,
                 FormOf(variant, ProcDom, EndpointOf(variant, button)))
       ELSE UNCHANGED <<requests, sent>>
    /\ last' = Event("button", 0, NoOutcome)
    /\ UNCHANGED <<variant, uiVars, completed, rowVars, storeVars, panelVars>>

\* The fetch of a processing request settles and the rest of
\* handleProcessing runs.
ProcessingDone(r, out) ==
    /\ r \in requests
    /\ r.kind = "process"
    /\ SetProcDom(ProcessingSettle(variant, ProcDom, out))
    /\ requests' = requests \ {r}
    /\ completed' = Append(completed,
            [id |-> r.id, kind |-> "process",
             success |-> ProcessingSuccess(out), rows |-> <<>>])
    /\ last' = Event("processDone", r.id, out)
    /\ UNCHANGED <<variant, uiVars, sent, rowVars, storeVars, panelVars>>

ProcessingNext ==
    \/ \E value \in DataValues : TypeData(value)
    \/ \E value \in SectionsValues : TypeSections(value)
    \/ \E value \in KeywordsValues : TypeKeywords(value)
    \/ \E button \in {"btnProcessar", "btnProcessarIA", "btnProcessarValor"} :
            ClickProcessar(button)
    \/ \E r \in requests, out \in ProcessingOutcomes : ProcessingDone(r, out)

ProcessingSpec == InitProcessing /\ [][ProcessingNext]_vars

\* Every request eventually resolves or rejects.
ProcessingFairSpec ==
    /\ ProcessingSpec
    /\ WF_vars(\E r \in requests, out \in ProcessingOutcomes :
                  ProcessingDone(r, out))

(***************************************************************************)
(* The site: one of the pages is open.                                     *)
(***************************************************************************)
SiteInit == Init \/ InitProcessing

SiteNext ==
    \/ variant \in {"legacy", "extended"} /\ Next
    \/ variant \in {"frontend", "static"} /\ ProcessingNext

SiteSpec == SiteInit /\ [][SiteNext]_vars

(***************************************************************************)
(* Claims about requests after a failure (checked under SiteSpec).         *)
(***************************************************************************)
\* The URL a request was sent to.
UrlOf(s) == IF s.kind = "process" THEN s.endpoint ELSE <<s.kind, s.ano>>
UserEvents == {"button", "bar"}
SettleEvents == {"tableDone", "chartDone", "processDone"}
FailedBefore(url) ==
    \E i \in DOMAIN sent, j \in DOMAIN completed :
        /\ UrlOf(sent[i]) = url
        /\ completed[j].id = sent[i].id
        /\ ~completed[j].success
NewRequests == {sent'[i] : i \in (DOMAIN sent') \ (DOMAIN sent)}

\* C11: no automatic retry.  A step sends at most one request; a request
\* is sent only by a user event (button click, bar click) or by the
\* settling of the chart request, which ends with one table request; the
\* step that settles a failed request sends no request of the kind that
\* failed.
C11_NoAutomaticRetry ==
    [][/\ Len(sent') <= Len(sent) + 1
       /\ \A s \in NewRequests :
            \/ last'.op \in UserEvents
            \/ last'.op = "chartDone" /\ s.kind = "table"
       /\ (/\ last'.op \in SettleEvents
           /\ Len(completed') = Len(completed) + 1
           /\ ~completed'[Len(completed')].success)
          => \A s \in NewRequests : s.kind # completed'[Len(completed')].kind
      ]_vars

\* A chart request and the table request that followed it have both failed
\* and the page is at rest with nothing else sent.
C11_Witness ==
    /\ requests = {}
    /\ Len(sent) = 2
    /\ Len(completed) = 2
    /\ \A j \in DOMAIN completed : ~completed[j].success
    /\ {completed[j].kind : j \in DOMAIN completed} = {"chart", "table"}

\* C11 as stated: once a request to a URL has failed, a request to that URL
\* is sent only by a user event.
C11_NoRequestUntilUserEvent ==
    [][\A s \in NewRequests :
            FailedBefore(UrlOf(s)) => last'.op \in UserEvents]_vars

(***************************************************************************)
(* Claims about the chart click (checked under Spec).                      *)
(***************************************************************************)
BarClicked == last'.op = "bar" /\ last'.id > 0
NoBarClicked == last'.op = "bar" /\ last'.id = 0

\* C12: a click on the bar at label index i, on whichever series of the
\* bar, makes exactly one call of fetchAndRenderTable, with the year
\* labels[i]: the page is as that call leaves it and one table request for
\* labels[i] was sent; a click on no bar changes nothing and sends nothing.
C12_ChartDrillDown ==
    [][/\ BarClicked =>
            /\ Dom' = TableStart(Dom, pacChart.labels[last'.id])
            /\ Len(sent') = Len(sent) + 1
            /\ sent'[Len(sent')].kind = "table"
            /\ sent'[Len(sent')].ano = pacChart.labels[last'.id]
            /\ sent'[Len(sent')].by = "bar"
            /\ Cardinality(requests') = Cardinality(requests) + 1
       /\ NoBarClicked => UNCHANGED <<uiVars, requests, sent>>
      ]_vars

\* The second bar was clicked and the table request for its year is the
\* latest one sent.
C12_Witness ==
    /\ last.op = "bar"
    /\ last.id = 2
    /\ pacChart.labels[2] = "2025"
    /\ inputAno = "2025"
    /\ sent[Len(sent)].ano = "2025"
    /\ sent[Len(sent)].by = "bar"

(***************************************************************************)
(* Claims about the rendered table (checked under Spec).                   *)
(***************************************************************************)
JustRendered == last.op = "tableDone" /\ TableSuccess(last.out)
SuccessfulTables ==
    {c \in DOMAIN completed : completed[c].kind = "table" /\ completed[c].success}

\* C13: when a successful table response has just been applied, the header
\* holds one cell per fixed column, the body holds one row per row of that
\* response, in the order of the response, every row has as many cells as
\* the header, and nothing of an earlier table is left, whether or not
\* fetches overlapped.
C13_TableReplaced ==
    JustRendered =>
        /\ Len(tableHeader) = Len(Headers(variant))
        /\ \A h \in DOMAIN tableHeader : tableHeader[h].text = Headers(variant)[h]
        /\ Len(tableBody) = Len(last.out.body.rows)
        /\ \A i \in DOMAIN tableBody :
              /\ tableBody[i] = RenderRow(variant, last.out.body.rows[i])
              /\ Len(tableBody[i].cells) = Len(tableHeader)

\* Two overlapping table fetches have both been rendered, each with the
\* same three rows, and the table holds three rows.
C13_Witness ==
    /\ JustRendered
    /\ Cardinality(SuccessfulTables) = 2
    /\ \A c \in SuccessfulTables : Len(completed[c].rows) = 3
    /\ \E c \in DOMAIN completed : EarlierOverlapping(c)
    /\ Len(tableBody) = 3
    /\ Len(tableHeader) \in {8, 9}

(***************************************************************************)
(* The static store (PAC_DB and renderizarTabela).  An amount of PAC_DB    *)
(* is a number with at most two decimals, kept as whole reais and          *)
(* centavos: in centavos the larger amounts exceed 2^31.                   *)
(***************************************************************************)
\* Mutant: the amounts are cut to whole reais.
MoneyWholeReais(reais, centavos) == [reais |-> reais, centavos |-> 0]

Money(reais, centavos) == [reais |-> reais, centavos |-> centavos]

\* Mutant: every record carries the action code 123G.
RecordOfOneAction(Mes, Acao, Desc, Dotacao, Provisao, Destaque, Disponivel, Empenhado, Pago) ==
    [Mes |-> Mes, Acao |-> "123G", Desc |-> Desc, Dotacao |-> Dotacao,
     Provisao |-> Provisao, Destaque |-> Destaque, Disponivel |-> Disponivel,
     Empenhado |-> Empenhado, Pago |-> Pago]

Record(Mes, Acao, Desc, Dotacao, Provisao, Destaque, Disponivel, Empenhado, Pago) ==
    [Mes |-> Mes, Acao |-> Acao, Desc |-> Desc, Dotacao |-> Dotacao,
     Provisao |-> Provisao, Destaque |-> Destaque, Disponivel |-> Disponivel,
     Empenhado |-> Empenhado, Pago |-> Pago]

PacDb ==
    "2026" :>
      <<Record("JAN/2026", "123G",
               "IMPLANTACAO DE ESTALEIRO E BASE NAVAL PARA CONSTRUCAO E MANU",
               Money(0, 0), Money(0, 0),
               Money(0, 0), Money(0, 0),
               Money(0, 0), Money(0, 0)),
        Record("JAN/2026", "123H",
               "CONSTRUCAO DE SUBMARINO DE PROPULSAO NUCLEAR",
               Money(0, 0), Money(0, 0),
               Money(0, 0), Money(0, 0),
               Money(0, 0), Money(0, 0)),
        Record("JAN/2026", "123I",
               "CONSTRUCAO DE SUBMARINOS CONVENCIONAIS",
               Money(0, 0), Money(0, 0),
               Money(0, 0), Money(0, 0),
               Money(0, 0), Money(0, 0)),
        Record("JAN/2026", "14T7",
               "DESENVOLVIMENTO DE SISTEMAS DE TECNOLOGIA NUCLEAR DA MARINHA",
               Money(0, 0), Money(0, 0),
               Money(0, 0), Money(0, 0),
               Money(0, 0), Money(0, 0)),
        Record("JAN/2026", "1N47",
               "CONSTRUCAO DE NAVIOS-PATRULHA DE 500 TONELADAS (NPA 500T)",
               Money(33667477, 0), Money(0, 0),
               Money(0, 0), Money(33667477, 0),
               Money(0, 0), Money(0, 0))>> @@
    "2025" :>
      <<Record("DEZ/2025", "123G",
               "IMPLANTACAO DE ESTALEIRO E BASE NAVAL PARA CONSTRUCAO E MANU",
               Money(250000, 0), Money(250000, 0),
               Money(0, 0), Money(0, 0),
               Money(250000, 0), Money(0, 0)),
        Record("DEZ/2025", "123H",
               "CONSTRUCAO DE SUBMARINO DE PROPULSAO NUCLEAR",
               Money(332675762, 0), Money(273641399, 0),
               Money(0, 0), Money(4122, 37),
               Money(332671639, 63), Money(113333333, 34)),
        Record("DEZ/2025", "123I",
               "CONSTRUCAO DE SUBMARINOS CONVENCIONAIS",
               Money(9324707, 0), Money(8802927, 0),
               Money(0, 0), Money(2185, 0),
               Money(9322522, 0), Money(0, 0)),
        Record("DEZ/2025", "14T7",
               "DESENVOLVIMENTO DE SISTEMAS DE TECNOLOGIA NUCLEAR DA MARINHA",
               Money(161822453, 0), Money(149309536, 0),
               Money(0, 0), Money(0, 0),
               Money(161822453, 0), Money(12852233, 0)),
        Record("DEZ/2025", "1N47",
               "CONSTRUCAO DE NAVIOS-PATRULHA DE 500 TONELADAS (NPA 500T)",
               Money(38118023, 0), Money(0, 0),
               Money(0, 0), Money(38118023, 0),
               Money(0, 0), Money(0, 0))>> @@
    "2024" :>
      <<Record("DEZ/2024", "123G",
               "IMPLANTACAO DE ESTALEIRO E BASE NAVAL PARA CONSTRUCAO E MANU",
               Money(38553255, 0), Money(38553255, 0),
               Money(0, 0), Money(0, 0),
               Money(38553255, 0), Money(24200787, 97)),
        Record("DEZ/2024", "123H",
               "CONSTRUCAO DE SUBMARINO DE PROPULSAO NUCLEAR",
               Money(401679090, 0), Money(387034503, 0),
               Money(0, 0), Money(0, 0),
               Money(401679090, 0), Money(393112679, 52)),
        Record("DEZ/2024", "123I",
               "CONSTRUCAO DE SUBMARINOS CONVENCIONAIS",
               Money(14163907, 0), Money(13955214, 0),
               Money(0, 0), Money(0, 0),
               Money(14163907, 0), Money(12450558, 80)),
        Record("DEZ/2024", "14T7",
               "DESENVOLVIMENTO DE SISTEMAS DE TECNOLOGIA NUCLEAR DA MARINHA",
               Money(254823439, 0), Money(252627055, 0),
               Money(0, 0), Money(4543, 14),
               Money(254818895, 86), Money(247067824, 28)),
        Record("DEZ/2024", "1N47",
               "CONSTRUCAO DE NAVIOS-PATRULHA DE 500 TONELADAS (NPA 500T)",
               Money(46560000, 0), Money(0, 0),
               Money(0, 0), Money(0, 0),
               Money(46560000, 0), Money(0, 0))>> @@
    "2023" :>
      <<Record("DEZ/2023", "123G",
               "IMPLANTACAO DE ESTALEIRO E BASE NAVAL PARA CONSTRUCAO E MANU",
               Money(10839846, 0), Money(10839846, 0),
               Money(0, 0), Money(0, 0),
               Money(10839846, 0), Money(10328906, 59)),
        Record("DEZ/2023", "123H",
               "CONSTRUCAO DE SUBMARINO DE PROPULSAO NUCLEAR",
               Money(487232231, 0), Money(487232231, 0),
               Money(0, 0), Money(0, 0),
               Money(487232231, 0), Money(444391624, 40)),
        Record("DEZ/2023", "123I",
               "CONSTRUCAO DE SUBMARINOS CONVENCIONAIS",
               Money(4181966, 0), Money(4181966, 0),
               Money(0, 0), Money(0, 0),
               Money(4181966, 0), Money(4165509, 77)),
        Record("DEZ/2023", "14T7",
               "DESENVOLVIMENTO DE SISTEMAS DE TECNOLOGIA NUCLEAR DA MARINHA",
               Money(322699318, 0), Money(315995470, 0),
               Money(0, 0), Money(0, 0),
               Money(322699318, 0), Money(318534080, 31)),
        Record("DEZ/2023", "1N47",
               "CONSTRUCAO DE NAVIOS-PATRULHA DE 500 TONELADAS (NPA 500T)",
               Money(481155, 0), Money(0, 0),
               Money(0, 0), Money(481155, 0),
               Money(0, 0), Money(0, 0))>> @@
    "2022" :>
      <<Record("DEZ/2022", "123G",
               "IMPLANTACAO DE ESTALEIRO E BASE NAVAL PARA CONSTRUCAO E MANU",
               Money(17871897, 0), Money(17871897, 0),
               Money(0, 0), Money(0, 0),
               Money(17871897, 0), Money(16422206, 52)),
        Record("DEZ/2022", "123H",
               "CONSTRUCAO DE SUBMARINO DE PROPULSAO NUCLEAR",
               Money(395996238, 0), Money(395996238, 0),
               Money(0, 0), Money(0, 0),
               Money(395996238, 0), Money(372439369, 83)),
        Record("DEZ/2022", "123I",
               "CONSTRUCAO DE SUBMARINOS CONVENCIONAIS",
               Money(10077840, 0), Money(10077840, 0),
               Money(0, 0), Money(0, 0),
               Money(10077840, 0), Money(10077840, 0)),
        Record("DEZ/2022", "14T7",
               "DESENVOLVIMENTO DE SISTEMAS DE TECNOLOGIA NUCLEAR DA MARINHA",
               Money(259640822, 0), Money(252996962, 0),
               Money(0, 0), Money(0, 0),
               Money(259640822, 0), Money(255297121, 73)),
        Record("DEZ/2022", "1N47",
               "CONSTRUCAO DE NAVIOS-PATRULHA DE 500 TONELADAS (NPA 500T)",
               Money(0, 0), Money(0, 0),
               Money(0, 0), Money(0, 0),
               Money(0, 0), Money(0, 0))>> @@
    "2021" :>
      <<Record("DEZ/2021", "123G",
               "IMPLANTACAO DE ESTALEIRO E BASE NAVAL PARA CONSTRUCAO E MANU",
               Money(13998965, 0), Money(13998965, 0),
               Money(0, 0), Money(0, 0),
               Money(13998965, 0), Money(12850977, 29)),
        Record("DEZ/2021", "123H",
               "CONSTRUCAO DE SUBMARINO DE PROPULSAO NUCLEAR",
               Money(255530722, 0), Money(255530722, 0),
               Money(0, 0), Money(0, 0),
               Money(255530722, 0), Money(242044813, 6)),
        Record("DEZ/2021", "123I",
               "CONSTRUCAO DE SUBMARINOS CONVENCIONAIS",
               Money(5267156, 0), Money(5267156, 0),
               Money(0, 0), Money(0, 0),
               Money(5267156, 0), Money(5267156, 0)),
        Record("DEZ/2021", "14T7",
               "DESENVOLVIMENTO DE SISTEMAS DE TECNOLOGIA NUCLEAR DA MARINHA",
               Money(218731175, 0), Money(213791175, 0),
               Money(0, 0), Money(0, 0),
               Money(218731175, 0), Money(204068565, 48)),
        Record("DEZ/2021", "1N47",
               "CONSTRUCAO DE NAVIOS-PATRULHA DE 500 TONELADAS (NPA 500T)",
               Money(0, 0), Money(0, 0),
               Money(0, 0), Money(0, 0),
               Money(0, 0), Money(0, 0))>> @@
    "2020" :>
      <<Record("DEZ/2020", "123G",
               "IMPLANTACAO DE ESTALEIRO E BASE NAVAL PARA CONSTRUCAO E MANU",
               Money(20297079, 0), Money(20297079, 0),
               Money(0, 0), Money(0, 0),
               Money(20297079, 0), Money(18261368, 50)),
        Record("DEZ/2020", "123H",
               "CONSTRUCAO DE SUBMARINO DE PROPULSAO NUCLEAR",
               Money(235166299, 0), Money(235166299, 0),
               Money(0, 0), Money(0, 0),
               Money(235166299, 0), Money(230752495, 73)),
        Record("DEZ/2020", "123I",
               "CONSTRUCAO DE SUBMARINOS CONVENCIONAIS",
               Money(13350325, 0), Money(13350325, 0),
               Money(0, 0), Money(0, 0),
               Money(13350325, 0), Money(13350325, 0)),
        Record("DEZ/2020", "14T7",
               "DESENVOLVIMENTO DE SISTEMAS DE TECNOLOGIA NUCLEAR DA MARINHA",
               Money(251877685, 0), Money(250377685, 0),
               Money(0, 0), Money(0, 0),
               Money(251877685, 0), Money(249071065, 73)),
        Record("DEZ/2020", "1N47",
               "CONSTRUCAO DE NAVIOS-PATRULHA DE 500 TONELADAS (NPA 500T)",
               Money(0, 0), Money(0, 0),
               Money(0, 0), Money(0, 0),
               Money(0, 0), Money(0, 0))>> @@
    "2019" :>
      <<Record("DEZ/2019", "123G",
               "IMPLANTACAO DE ESTALEIRO E BASE NAVAL PARA CONSTRUCAO E MANU",
               Money(52627961, 0), Money(52627961, 0),
               Money(0, 0), Money(0, 0),
               Money(52627961, 0), Money(50669273, 68)),
        Record("DEZ/2019", "123H",
               "CONSTRUCAO DE SUBMARINO DE PROPULSAO NUCLEAR",
               Money(300099498, 0), Money(300099498, 0),
               Money(0, 0), Money(0, 0),
               Money(300099498, 0), Money(298377700, 32)),
        Record("DEZ/2019", "123I",
               "CONSTRUCAO DE SUBMARINOS CONVENCIONAIS",
               Money(250000, 0), Money(250000, 0),
               Money(0, 0), Money(0, 0),
               Money(250000, 0), Money(250000, 0)),
        Record("DEZ/2019", "14T7",
               "DESENVOLVIMENTO DE SISTEMAS DE TECNOLOGIA NUCLEAR DA MARINHA",
               Money(213192461, 0), Money(213192461, 0),
               Money(0, 0), Money(0, 0),
               Money(213192461, 0), Money(212450702, 4)),
        Record("DEZ/2019", "1N47",
               "CONSTRUCAO DE NAVIOS-PATRULHA DE 500 TONELADAS (NPA 500T)",
               Money(0, 0), Money(0, 0),
               Money(0, 0), Money(0, 0),
               Money(0, 0), Money(0, 0))>> @@
    "2018" :>
      <<Record("DEZ/2018", "123G",
               "IMPLANTACAO DE ESTALEIRO E BASE NAVAL PARA CONSTRUCAO E MANU",
               Money(161947881, 0), Money(158580228, 0),
               Money(0, 0), Money(0, 0),
               Money(161947881, 0), Money(161821896, 79)),
        Record("DEZ/2018", "123H",
               "CONSTRUCAO DE SUBMARINO DE PROPULSAO NUCLEAR",
               Money(527581781, 0), Money(526244675, 0),
               Money(0, 0), Money(0, 0),
               Money(527581781, 0), Money(472534575, 48)),
        Record("DEZ/2018", "123I",
               "CONSTRUCAO DE SUBMARINOS CONVENCIONAIS",
               Money(48100142, 0), Money(48100142, 0),
               Money(0, 0), Money(0, 0),
               Money(48100142, 0), Money(48100142, 0)),
        Record("DEZ/2018", "14T7",
               "DESENVOLVIMENTO DE SISTEMAS DE TECNOLOGIA NUCLEAR DA MARINHA",
               Money(302094244, 0), Money(300094244, 0),
               Money(0, 0), Money(0, 0),
               Money(302094244, 0), Money(301419777, 67)),
        Record("DEZ/2018", "1N47",
               "CONSTRUCAO DE NAVIOS-PATRULHA DE 500 TONELADAS (NPA 500T)",
               Money(0, 0), Money(0, 0),
               Money(0, 0), Money(0, 0),
               Money(0, 0), Money(0, 0))>> @@
    "2017" :>
      <<Record("DEZ/2017", "123G",
               "IMPLANTACAO DE ESTALEIRO E BASE NAVAL PARA CONSTRUCAO E MANU",
               Money(544026366, 0), Money(543326366, 0),
               Money(0, 0), Money(0, 0),
               Money(544026366, 0), Money(544026366, 0)),
        Record("DEZ/2017", "123H",
               "CONSTRUCAO DE SUBMARINO DE PROPULSAO NUCLEAR",
               Money(454316278, 0), Money(454316278, 0),
               Money(0, 0), Money(0, 0),
               Money(454316278, 0), Money(454316278, 0)),
        Record("DEZ/2017", "123I",
               "CONSTRUCAO DE SUBMARINOS CONVENCIONAIS",
               Money(490514107, 0), Money(490514107, 0),
               Money(0, 0), Money(0, 0),
               Money(490514107, 0), Money(490514107, 0)),
        Record("DEZ/2017", "14T7",
               "DESENVOLVIMENTO DE SISTEMAS DE TECNOLOGIA NUCLEAR DA MARINHA",
               Money(242095908, 0), Money(242095908, 0),
               Money(0, 0), Money(0, 0),
               Money(242095908, 0), Money(241951908, 0)),
        Record("DEZ/2017", "1N47",
               "CONSTRUCAO DE NAVIOS-PATRULHA DE 500 TONELADAS (NPA 500T)",
               Money(0, 0), Money(0, 0),
               Money(0, 0), Money(0, 0),
               Money(0, 0), Money(0, 0))>> @@
    "2016" :>
      <<Record("DEZ/2016", "123G",
               "IMPLANTACAO DE ESTALEIRO E BASE NAVAL PARA CONSTRUCAO E MANU",
               Money(508107767, 0), Money(508107767, 0),
               Money(0, 0), Money(0, 0),
               Money(508107767, 0), Money(508107767, 0)),
        Record("DEZ/2016", "123H",
               "CONSTRUCAO DE SUBMARINO DE PROPULSAO NUCLEAR",
               Money(444390000, 0), Money(444390000, 0),
               Money(0, 0), Money(0, 0),
               Money(444390000, 0), Money(444390000, 0)),
        Record("DEZ/2016", "123I",
               "CONSTRUCAO DE SUBMARINOS CONVENCIONAIS",
               Money(651666699, 0), Money(651666699, 0),
               Money(0, 0), Money(0, 0),
               Money(651666699, 0), Money(651666699, 0)),
        Record("DEZ/2016", "14T7",
               "DESENVOLVIMENTO DE SISTEMAS DE TECNOLOGIA NUCLEAR DA MARINHA",
               Money(246533038, 0), Money(246533038, 0),
               Money(0, 0), Money(0, 0),
               Money(246533038, 0), Money(246533038, 0)),
        Record("DEZ/2016", "1N47",
               "CONSTRUCAO DE NAVIOS-PATRULHA DE 500 TONELADAS (NPA 500T)",
               Money(402206, 0), Money(0, 0),
               Money(0, 0), Money(402206, 0),
               Money(0, 0), Money(0, 0))>> @@
    "2015" :>
      <<Record("DEZ/2015", "123G",
               "IMPLANTACAO DE ESTALEIRO E BASE NAVAL PARA CONSTRUCAO E MANU",
               Money(709970921, 0), Money(709970921, 0),
               Money(0, 0), Money(0, 0),
               Money(709970921, 0), Money(625691062, 62)),
        Record("DEZ/2015", "123H",
               "CONSTRUCAO DE SUBMARINO DE PROPULSAO NUCLEAR",
               Money(255000000, 0), Money(255000000, 0),
               Money(0, 0), Money(0, 0),
               Money(255000000, 0), Money(255000000, 0)),
        Record("DEZ/2015", "123I",
               "CONSTRUCAO DE SUBMARINOS CONVENCIONAIS",
               Money(286221193, 0), Money(286221193, 0),
               Money(0, 0), Money(0, 0),
               Money(286221193, 0), Money(286221193, 0)),
        Record("DEZ/2015", "14T7",
               "DESENVOLVIMENTO DE SISTEMAS DE TECNOLOGIA NUCLEAR DA MARINHA",
               Money(273523498, 0), Money(273523498, 0),
               Money(0, 0), Money(0, 0),
               Money(273523498, 0), Money(273523498, 0)),
        Record("DEZ/2015", "1N47",
               "CONSTRUCAO DE NAVIOS-PATRULHA DE 500 TONELADAS (NPA 500T)",
               Money(0, 0), Money(0, 0),
               Money(0, 0), Money(0, 0),
               Money(0, 0), Money(0, 0))>>

\* PAC_DB[ano]: undefined for a key the object does not hold.
Holds(db, ano) == ano \in DOMAIN db
dadosAno(db, ano) == IF Holds(db, ano) THEN db[ano] ELSE <<>>

\* brl.format(value) for an amount: "R$" and the amount with two decimals.
brlFormat(value) == Text("currency", FALSE, value, "")

\* The row "Sem dados para o ano selecionado (Base Local)."
SemDados ==
    [colspan |-> 9,
     cells |-> <<Text("plain", FALSE, 0, "Sem dados para o ano selecionado")>>]

\* The tr built from one record: nine cells.
StoreRow(d) ==
    [colspan |-> 1,
     cells |-> <<Text("plain", FALSE, 0, d.Mes), Text("plain", FALSE, 0, d.Acao),
                 Text("plain", FALSE, 0, d.Desc), brlFormat(d.Dotacao),
                 brlFormat(d.Provisao), brlFormat(d.Destaque),
                 brlFormat(d.Disponivel), brlFormat(d.Empenhado),
                 brlFormat(d.Pago)>>]

\* document.querySelector("#pac-table tbody") found nothing.
NoTbody == <<[colspan |-> 0, cells |-> <<>>]>>

\* Mutant: no test of dadosAno before forEach, which throws on undefined.
renderizarTabelaUnguarded(db, body, ano) ==
    IF body = NoTbody THEN [tbody |-> body, raised |-> FALSE]
    ELSE IF ~Holds(db, ano) THEN [tbody |-> <<>>, raised |-> TRUE]
    ELSE [tbody |-> [i \in 1..Len(db[ano]) |-> StoreRow(db[ano][i])],
          raised |-> FALSE]

\* renderizarTabela(ano) on the table body "body": the table body it
\* leaves, and whether it threw.
renderizarTabela(db, body, ano) ==
    IF body = NoTbody THEN [tbody |-> body, raised |-> FALSE]
    ELSE IF ~Holds(db, ano) \/ Len(dadosAno(db, ano)) = 0
         THEN [tbody |-> <<SemDados>>, raised |-> FALSE]
    ELSE [tbody |-> [i \in 1..Len(dadosAno(db, ano)) |->
                        StoreRow(dadosAno(db, ano)[i])],
          raised |-> FALSE]

(***************************************************************************)
(* The page of the static store: initial state and events.                 *)
(***************************************************************************)
\* The values the options of the select can have.
SelectValues == DOMAIN PacDb \cup {"2027", "2014", ""}

\* The DOMContentLoaded listener has run: renderizarTabela(selectAno.value).
InitStore ==
    /\ variant = "store"
    /\ IdleView
    /\ IdleRowCallback
    /\ IdleProcessing
    /\ IdlePanel
    /\ PAC_DB = PacDb
    /\ selectAno \in SelectValues
    /\ \E body \in {NoTbody, <<>>} :
          /\ tbody = renderizarTabela(PacDb, body, selectAno).tbody
          /\ raised = renderizarTabela(PacDb, body, selectAno).raised
    \* typeof atualizarGrafico: "undefined", or a function not yet called
    /\ graficoAno \in {"undefined", ""}

\* The change listener of the select.
ChangeAno(anoSelecionado) ==
    /\ selectAno' = anoSelecionado
    /\ tbody' = renderizarTabela(PAC_DB, tbody, anoSelecionado).tbody
    /\ raised' = (raised \/ renderizarTabela(PAC_DB, tbody, anoSelecionado).raised)
    /\ graficoAno' =
          IF graficoAno = "undefined"
             \/ renderizarTabela(PAC_DB, tbody, anoSelecionado).raised
          THEN graficoAno
          ELSE anoSelecionado
    /\ last' = Event("change", 0, NoOutcome)
    /\ UNCHANGED <<variant, uiVars, requests, sent, completed, rowVars,
                   procVars, PAC_DB, panelVars>>

StoreNext == \E anoSelecionado \in SelectValues : ChangeAno(anoSelecionado)

StoreSpec == InitStore /\ [][StoreNext]_vars

(***************************************************************************)
(* Claims about the static store (checked under StoreSpec).                *)
(***************************************************************************)
IsDataRow(row) == Len(row.cells) = 9
Changed == last.op = "change"

\* C14: for a year key that PAC_DB does not hold, renderizarTabela raises
\* no error, renders no data row and leaves the table body, when the page
\* has one, with exactly the single "Sem dados" row; PAC_DB is as it was.
C14_UnknownYear ==
    (Changed /\ ~Holds(PacDb, selectAno)) =>
        /\ ~raised
        /\ \A i \in DOMAIN tbody : ~IsDataRow(tbody[i])
        /\ tbody # NoTbody => tbody = <<SemDados>>
        /\ PAC_DB = PacDb

\* The year 2027 was selected on a page that has the table body and
\* atualizarGrafico.
C14_Witness ==
    /\ Changed
    /\ selectAno = "2027"
    /\ graficoAno = "2027"
    /\ tbody = <<SemDados>>
    /\ ~raised

Years == {"2015", "2016", "2017", "2018", "2019", "2020", "2021", "2022",
          "2023", "2024", "2025", "2026"}
ActionCodes == {"123G", "123H", "123I", "14T7", "1N47"}
RecordsOf(db, ano, acao) ==
    {i \in DOMAIN db[ano] : db[ano][i].Acao = acao}

\* C15: PAC_DB holds the years 2015 to 2026, and for every year it holds
\* and each of the five action codes exactly one record, and no record of
\* another code, so that action codes are unique within a year and the
\* Dotacao series has one amount per (year, action code); the Dotacao of
\* 1N47 in 2021 is 0.
C15_SeriesCoverage ==
    /\ DOMAIN PAC_DB = Years
    /\ \A ano \in DOMAIN PAC_DB :
          /\ \A acao \in ActionCodes :
                Cardinality(RecordsOf(PAC_DB, ano, acao)) = 1
          /\ \A i \in DOMAIN PAC_DB[ano] : PAC_DB[ano][i].Acao \in ActionCodes
    /\ \A i \in RecordsOf(PAC_DB, "2021", "1N47") :
          PAC_DB["2021"][i].Dotacao = Money(0, 0)

\* The year 2021 is shown: five rows, the last one of 1N47 with a Dotacao
\* of R$ 0,00.
C15_Witness ==
    /\ selectAno = "2021"
    /\ Len(tbody) = 5
    /\ tbody[5].cells[2].s = "1N47"
    /\ tbody[5].cells[4] = brlFormat(Money(0, 0))

Amounts6(d) ==
    {d.Dotacao, d.Provisao, d.Destaque, d.Disponivel, d.Empenhado, d.Pago}
NonNegative(m) == m.reais >= 0 /\ m.centavos >= 0 /\ m.centavos < 100

\* a - b in reais and centavos, for amounts that are not negative; the
\* result has negative reais when b is the larger.
MoneySub(a, b) ==
    IF a.centavos >= b.centavos
    THEN Money(a.reais - b.reais, a.centavos - b.centavos)
    ELSE Money(a.reais - b.reais - 1, a.centavos + 100 - b.centavos)

\* C20: every record of PAC_DB, in every year, has Disponivel equal to
\* Dotacao minus Empenhado, to the centavo, and its six amounts are not
\* negative.
C20_AvailableIsAllocatedMinusCommitted ==
    \A ano \in DOMAIN PAC_DB : \A i \in DOMAIN PAC_DB[ano] :
        /\ \A m \in Amounts6(PAC_DB[ano][i]) : NonNegative(m)
        /\ PAC_DB[ano][i].Disponivel =
              MoneySub(PAC_DB[ano][i].Dotacao, PAC_DB[ano][i].Empenhado)

\* The year 2025 is shown, and the row of 123H has a Disponivel and an
\* Empenhado with centavos.
C20_Witness ==
    /\ selectAno = "2025"
    /\ Len(tbody) = 5
    /\ tbody[2].cells[2].s = "123H"
    /\ tbody[2].cells[4] = brlFormat(Money(332675762, 0))
    /\ tbody[2].cells[7] = brlFormat(Money(4122, 37))
    /\ tbody[2].cells[8] = brlFormat(Money(332671639, 63))

(***************************************************************************)
(* The extended indicator on amounts of the size of those of PAC_DB.  An   *)
(* amount in centavos is kept in two limbs, hi * 100000 + lo, and is only  *)
(* multiplied by factors up to 2 * (MaxTenths + 1), which keeps every limb *)
(* below 2^31 for amounts up to ten thousand million reais.                *)
(***************************************************************************)
MaxTenths == 1001   \* the largest percentage, in tenths, that is looked for

Wide(hi, lo) == [hi |-> hi, lo |-> lo]

\* The amount in centavos.
Centavos(m) ==
    Wide(m.reais \div 1000, (m.reais % 1000) * 100 + m.centavos)

WideLess(a, b) == a.hi < b.hi \/ (a.hi = b.hi /\ a.lo < b.lo)
WideAdd(a, b) ==
    Wide(a.hi + b.hi + ((a.lo + b.lo) \div 100000), (a.lo + b.lo) % 100000)
\* a - b, for b that is not above a.
WideSub(a, b) ==
    IF a.lo >= b.lo THEN Wide(a.hi - b.hi, a.lo - b.lo)
    ELSE Wide(a.hi - b.hi - 1, a.lo + 100000 - b.lo)
WideTimes(a, k) ==
    Wide(a.hi * k + ((a.lo * k) \div 100000), (a.lo * k) % 100000)

\* A quotient that is not reduced: (-1)^neg * num / den.
Ratio(neg, num, den) == [neg |-> neg, num |-> num, den |-> den]

\* const empenhado = rowData['EMPENHADO (c)'] || 0; ...; let novoIndicador =
\* 0; if (empenhado !== 0) novoIndicador = (empenhado - disponivel) /
\* empenhado, for amounts that are not negative.
NovoIndicadorOf(empenhado, disponivel) ==
    IF Centavos(empenhado) = Wide(0, 0) THEN Ratio(FALSE, Wide(0, 0), Wide(0, 1))
    ELSE IF WideLess(Centavos(empenhado), Centavos(disponivel))
         THEN Ratio(TRUE, WideSub(Centavos(disponivel), Centavos(empenhado)),
                    Centavos(empenhado))
    ELSE Ratio(FALSE, WideSub(Centavos(empenhado), Centavos(disponivel)),
               Centavos(empenhado))

\* Mutant: the fraction digits beyond the first are cut, not rounded.
TenthsOfPercentCut(value) ==
    CHOOSE m \in 0..MaxTenths :
        /\ ~WideLess(WideTimes(value.num, 1000), WideTimes(value.den, m))
        /\ WideLess(WideTimes(value.num, 1000), WideTimes(value.den, m + 1))

\* (value * 100) with one fraction digit, in tenths: the m with
\* 2 * m * den <= 2000 * num + den < 2 * (m + 1) * den, which is value * 1000
\* rounded to the nearest, ties away from zero.
TenthsOfPercent(value) ==
    CHOOSE m \in 0..MaxTenths :
        /\ ~WideLess(WideAdd(WideTimes(value.num, 2000), value.den),
                     WideTimes(value.den, 2 * m))
        /\ WideLess(WideAdd(WideTimes(value.num, 2000), value.den),
                    WideTimes(value.den, 2 * (m + 1)))

\* formatPercent of the 9-column table, on a quotient.
formatPercentOf(value) ==
    Text("percent", value.neg, TenthsOfPercent(value), "")

InitIndicator ==
    /\ variant = "extended"
    /\ IdleView
    /\ IdleProcessing
    /\ IdleStore
    /\ IdlePanel
    /\ rowData \in UNION {{PacDb[ano][i] : i \in DOMAIN PacDb[ano]} :
                            ano \in DOMAIN PacDb}
    /\ tr = NoTr
    /\ novoIndicador = Num(0)

\* The row callback of the 9-column table for the row of a record: the
\* local novoIndicador and the cell of the indicator.
IndicatorCallback ==
    /\ tr = NoTr
    /\ novoIndicador' = NovoIndicadorOf(rowData.Empenhado, rowData.Disponivel)
    /\ tr' = [classList |-> {"row-acao"},
              cells |-> <<formatPercentOf(
                  NovoIndicadorOf(rowData.Empenhado, rowData.Disponivel))>>]
    /\ UNCHANGED <<variant, uiVars, netVars, rowData, pageVars>>

IndicatorSpec == InitIndicator /\ [][IndicatorCallback]_vars

(***************************************************************************)
(* Claims about the indicator of a record (checked under IndicatorSpec).   *)
(***************************************************************************)
Submarino2025 == PacDb["2025"][2]
Million(a) == WideTimes(WideTimes(a, 1000), 1000)

\* C18: on the 2025 record of 123H (Dotacao 332675762.00, Empenhado
\* 332671639.63, Disponivel 4122.37) the extended indicator is positive and
\* strictly below 1, between 0.999987 and 0.999988 (1 minus the indicator
\* is between 12 and 13 millionths), and its cell shows 100,0%.
C18_SubmarinoIndicator ==
    (tr # NoTr /\ rowData = Submarino2025) =>
        /\ rowData.Acao = "123H"
        /\ rowData.Dotacao = Money(332675762, 0)
        /\ rowData.Empenhado = Money(332671639, 63)
        /\ rowData.Disponivel = Money(4122, 37)
        /\ ~novoIndicador.neg
        /\ WideLess(novoIndicador.num, novoIndicador.den)
        /\ WideLess(WideTimes(novoIndicador.den, 12),
                    Million(WideSub(novoIndicador.den, novoIndicador.num)))
        /\ WideLess(Million(WideSub(novoIndicador.den, novoIndicador.num)),
                    WideTimes(novoIndicador.den, 13))
        /\ tr.cells = <<Text("percent", FALSE, 1000, "")>>

\* The row of the 2025 record of 123H has been rendered.
C18_Witness ==
    /\ tr # NoTr
    /\ rowData = Submarino2025
    /\ novoIndicador.den = Wide(332671, 63963)
    /\ novoIndicador.num = Wide(332667, 51726)

(***************************************************************************)
(* Claims about missing values (checked under RowSpec).                    *)
(***************************************************************************)
NumericColumns(v) ==
    {i \in DOMAIN Headers(v) : Headers(v)[i] \notin {"PROGRAMA", "ACAO"}}
IndicatorColumn(v) == Len(Headers(v))

\* The value a numeric column shows: the value of the row under the
\* column's key, and the computed indicator in the last column of the
\* 9-column table.
ColumnValue(v, row, i) ==
    IF v = "extended" /\ i = IndicatorColumn(v) THEN NovoIndicador(row)
    ELSE row[Headers(v)[i]]
Missing(value) == ~IsNumber(value) \/ IsNaN(value)
ZeroText(v, i) == IF i = IndicatorColumn(v) THEN ZeroPercent ELSE ZeroCurrency
MissingInJson == {Undef, Null, Str("n/d")}

\* C16: a value a JSON row can carry that is absent, null or not a number
\* is formatted as zero by both formatters, and in every rendered row every
\* numeric column whose value is absent, null, not a number or NaN shows
\* the zero text ("R$ 0,00", in the indicator column "0,0%"); no numeric
\* cell is blank or shows "NaN".
C16_MissingRendersZero ==
    /\ \A value \in MissingInJson :
          /\ formatCurrency(value) = ZeroCurrency
          /\ formatPercent(variant, value) = ZeroPercent
    /\ Rendered =>
          \A i \in NumericColumns(variant) :
              /\ Missing(ColumnValue(variant, rowData, i))
                    => tr.cells[i].text = ZeroText(variant, i)
              /\ tr.cells[i].text.fmt \in {"currency", "percent"}

\* A row of the 9-column table with no DOTACAO ATUAL, a null DISPONIVEL, no
\* LIQUIDADO and an EMPENHADO that is a text: the indicator is NaN, and the
\* five cells show zero.
C16_Witness ==
    /\ Rendered
    /\ variant = "extended"
    /\ rowData["DOTACAO ATUAL"] = Undef
    /\ rowData["DISPONIVEL"] = Null
    /\ rowData["EMPENHADO (c)"] = Str("n/d")
    /\ rowData["LIQUIDADO"] = Undef
    /\ IsNaN(novoIndicador)
    /\ tr.cells[4].text = ZeroCurrency
    /\ tr.cells[5].text = ZeroCurrency
    /\ tr.cells[6].text = ZeroCurrency
    /\ tr.cells[7].text = ZeroCurrency
    /\ tr.cells[9].text = ZeroPercent

(***************************************************************************)
(* Claims about invalid input (checked under SiteSpec).                    *)
(***************************************************************************)
\* The values of the model that parse as a date (YYYY-MM-DD), as a year.
ParseableDate(value) == Trim(value) = today
ParseableYear(ano) == ano \in {"2024", "2025", "2026"}
ClickedOn(scripts) == last'.op = "button" /\ variant \in scripts

\* C17: a click that gives fetchAndRenderTable a year that is missing or
\* does not parse, or handleProcessing a date that is missing or does not
\* parse, sends no request, shows the inline message, and leaves the
\* disabled state of the buttons and the loading indicator as they were.
C17_InvalidInputSendsNothing ==
    [][/\ (ClickedOn({"legacy", "extended"}) /\ ~ParseableYear(inputAno)) =>
            /\ sent' = sent
            /\ requests' = requests
            /\ errorTextContent' = InvalidYear
            /\ errorTextDisplay' = "block"
            /\ UNCHANGED <<btnConsultarDisabled, loadingTextDisplay>>
       /\ (ClickedOn({"frontend", "static"}) /\ ~ParseableDate(dataValue)) =>
            /\ sent' = sent
            /\ requests' = requests
            /\ previewTextContent' = InformeData
            /\ UNCHANGED <<btnProcessarDisabled, btnProcessarIADisabled,
                           btnProcessarValorDisabled, btnCopiarDisabled,
                           previewLoading>>
      ]_vars

(***************************************************************************)
(* Claims about the form of a POST (checked under ProcessingSpec).         *)
(***************************************************************************)
Posted == {r \in requests' : r \notin requests /\ r.kind = "process"}
HasField(fd, name, value) ==
    \E i \in DOMAIN fd : fd[i] = Field(name, value)
FieldNames(fd) == {fd[i].name : i \in DOMAIN fd}
EnteredDate == Trim(dataValue)
EnteredSections ==
    IF Trim(sectionsValue) = <<>> THEN DefaultSections ELSE Trim(sectionsValue)
DouEndpoints == {ProcessarInlabs, ProcessarInlabsIA, ProcessarDouIA}

\* C19: every POST of handleProcessing carries the field data, the entered
\* date; a POST to /processar-inlabs, /processar-inlabs-ia or
\* /processar-dou-ia also carries the field sections, the entered codes or
\* "DO1,DO2" when the field is empty; the POST to /processar-valor-ia
\* carries the field data alone.
C19_PostFields ==
    [][\A r \in Posted :
          /\ r.endpoint \in DouEndpoints \cup {ProcessarValorIA}
          /\ HasField(r.fd, "data", EnteredDate)
          /\ r.endpoint \in DouEndpoints
                => HasField(r.fd, "sections", EnteredSections)
          /\ r.endpoint = ProcessarValorIA => FieldNames(r.fd) = {"data"}
      ]_vars

\* A POST to /processar-dou-ia is in flight, sent with the sections field
\* empty: it carries the date and "DO1,DO2".
C19_Witness ==
    /\ sectionsValue = <<>>
    /\ dataValue = today
    /\ \E r \in requests :
          /\ r.endpoint = ProcessarDouIA
          /\ HasField(r.fd, "data", today)
          /\ HasField(r.fd, "sections", DefaultSections)

\* C19 as stated: every POST carries both data and sections.
C19_EveryPostCarriesSections ==
    [][\A r \in Posted :
          /\ HasField(r.fd, "data", EnteredDate)
          /\ HasField(r.fd, "sections", EnteredSections)
      ]_vars


(***************************************************************************)
(* The panel (second script of static/pac.js): triggerProcess.             *)
(***************************************************************************)
\* The click listeners of the main buttons.
PanelEndpointOf(button) ==
    IF button = "btnProcessar" THEN ProcessarInlabs
    ELSE IF button = "btnIA" THEN ProcessarDouIA
    ELSE <<"/teste", "-fallback">>

\* Array.prototype.join(',')
RECURSIVE Join(_)
Join(list) ==
    IF Len(list) <= 1 THEN list
    ELSE <<Head(list), ",">> \o Join(Tail(list))

\* The array sections of triggerProcess: one code for each checked box.
sections(checked) ==
    (IF "sec1" \in checked THEN <<"DO1">> ELSE <<>>)
    \o (IF "sec2" \in checked THEN <<"DO2">> ELSE <<>>)
    \o (IF "sec3" \in checked THEN <<"DO3">> ELSE <<>>)

\* The FormData of triggerProcess: kwList is the split, trimmed and
\* filtered input, appended whenever the input is not the empty string.
formDataOf(date, checked, keywords) ==
    <<Field("data", date), Field("sections", Join(sections(checked)))>>
    \o (IF keywords # <<>>
        THEN <<Field("keywords_json", JSONStringify(keywordsList(keywords)))>>
        ELSE <<>>)

\* What an endpoint can answer to the panel: the body is an object with
\* publications (0 or more), or not JSON.
PanelOutcomes ==
    {Outcome(TRUE, 0, ObjectBody, TRUE),
     Outcome(FALSE, 200, [kind |-> "publications", publications |-> 1], TRUE),
     Outcome(FALSE, 200, [kind |-> "publications", publications |-> 0], TRUE),
     Outcome(FALSE, 200, NotJsonBody(<<"Unexpected token">>), TRUE),
     Outcome(FALSE, 500, ObjectBody, TRUE)}

\* renderResults(data) ran to its end.
PanelSuccess(out) ==
    ~out.net /\ Ok(out.status) /\ out.body.kind \in {"publications", "object"}

\* resultsArea.innerHTML when triggerProcess ends.
resultsAfter(out) ==
    IF out.net THEN <<"Erro ao processar:">> \o FailedToFetch
    ELSE IF ~Ok(out.status)
         THEN <<"Erro ao processar:", "Erro HTTP:", StatusText(out.status)>>
    ELSE IF out.body.kind = "notjson"
         THEN <<"Erro ao processar:">> \o out.body.message
    ELSE IF out.body.kind = "publications" /\ out.body.publications > 0
         THEN <<"Resumo para Mensageria", "Relatorio Pronto", "card">>
    ELSE <<"Nenhuma publicacao encontrada.">>

\* The DOMContentLoaded listener of the panel has run.
InitPanel ==
    /\ variant = "panel"
    /\ IdleView
    /\ IdleRowCallback
    /\ IdleProcessing
    /\ IdleStore
    /\ dateInputValue = today
    /\ secChecked = {"sec1", "sec2"}
    /\ keywordsInputValue = <<>>
    /\ loadingDivHidden = TRUE
    /\ resultsAreaInnerHTML = <<>>
    /\ formData = <<>>

\* The user edits the form of the panel: a box is toggled or the keywords
\* are typed.
TypePanel(box, keywords) ==
    /\ secChecked' = (secChecked \ {box}) \cup ({box} \ secChecked)
    /\ keywordsInputValue' = keywords
    /\ last' = Event("type", 0, NoOutcome)
    /\ UNCHANGED <<variant, uiVars, requests, sent, completed, rowVars,
                   procVars, storeVars, dateInputValue, loadingDivHidden,
                   resultsAreaInnerHTML, formData>>

\* triggerProcess(endpoint), up to its await: the buttons stay enabled.
\* The body of the POST is the local formData, kept in the variable of
\* that name; the entry of the request in flight holds no copy of it.
ClickPanel(button) ==
    /\ Len(sent) < MaxPosts
    /\ loadingDivHidden' = FALSE
    /\ resultsAreaInnerHTML' = <<>>
    /\ formData' = formDataOf(dateInputValue, secChecked, keywordsInputValue)
    /\ Post(PanelEndpointOf(button), button, <<>>)
    /\ last' = Event("button", 0, NoOutcome)
    /\ UNCHANGED <<variant, uiVars, completed, rowVars, procVars, storeVars,
                   dateInputValue, secChecked, keywordsInputValue>>

\* The fetch of triggerProcess settles: try, catch and finally.
PanelDone(r, out) ==
    /\ r \in requests
    /\ resultsAreaInnerHTML' = resultsAfter(out)
    /\ loadingDivHidden' = TRUE
    /\ requests' = requests \ {r}
    /\ completed' = Append(completed,
            [id |-> r.id, kind |-> "process",
             success |-> PanelSuccess(out), rows |-> <<>>])
    /\ last' = Event("processDone", r.id, out)
    /\ UNCHANGED <<variant, uiVars, sent, rowVars, procVars, storeVars,
                   dateInputValue, secChecked, keywordsInputValue, formData>>

PanelNext ==
    \/ \E box \in {"sec3", "none"}, keywords \in KeywordsValues :
            TypePanel(box, keywords)
    \/ \E button \in {"btnProcessar", "btnIA", "btnFallback"} :
            ClickPanel(button)
    \/ \E r \in requests, out \in PanelOutcomes : PanelDone(r, out)

PanelSpec == InitPanel /\ [][PanelNext]_vars


(***************************************************************************)
(* Claims about the keywords of a request.                                 *)
(***************************************************************************)
\* The keywords a field holds: its comma-separated entries, trimmed, the
\* empty ones left out, in the order of the input.
IsKeyword(token) == token \notin {",", " "}
EnteredKeywords(value) == SelectSeq(value, IsKeyword)
\* The form a step sent: the body of the POST of handleProcessing, or the
\* formData of the call of triggerProcess.
SentForms ==
    IF variant = "panel"
    THEN (IF Len(sent') > Len(sent) THEN {formData'} ELSE {})
    ELSE {r.fd : r \in Posted}
KeywordsInput == IF variant = "panel" THEN keywordsInputValue ELSE keywordsValue

\* C21: a request carries the field keywords_json if and only if the
\* keywords input holds at least one keyword that is not empty after
\* trimming, and the field is then the JSON array of the entered keywords;
\* for handleProcessing and for triggerProcess.
C21_KeywordsJsonWellFormed ==
    [][\A fd \in SentForms :
          /\ "keywords_json" \in FieldNames(fd)
                <=> EnteredKeywords(KeywordsInput) # <<>>
          /\ EnteredKeywords(KeywordsInput) # <<>>
                => HasField(fd, "keywords_json",
                            <<"[">> \o EnteredKeywords(KeywordsInput) \o <<"]">>)
      ]_vars


(***************************************************************************)
(* Claims about the buttons of the processing page (ProcessingSpec).       *)
(***************************************************************************)
ProcessingInFlight == {r \in requests : r.kind = "process"}
ButtonsDisabled == {b \in Buttons(variant) : Disabled(ProcDom, b)}

\* C22: at most one processing request is in flight at any time, and while
\* it is in flight every processing button of the page is disabled.
C22_MutualExclusion ==
    /\ Cardinality(ProcessingInFlight) <= 1
    /\ ProcessingInFlight # {} => ButtonsDisabled = Buttons(variant)

\* A second request is in flight after the first one completed, and the
\* buttons are disabled again.
C22_Witness ==
    /\ Len(sent) = 2
    /\ Len(completed) = 1
    /\ Cardinality(ProcessingInFlight) = 1
    /\ ButtonsDisabled = Buttons(variant)


\* C23: provided every request eventually settles, a processing request
\* in flight leads to a state where the processing buttons are enabled
\* again and the preview has lost its loading class, whatever the outcome.
C23_Completion ==
    (ProcessingInFlight # {}) ~> (ButtonsDisabled = {} /\ ~previewLoading)

\* A request was rejected by the network and the page is usable again.
C23_Witness ==
    /\ last.op = "processDone"
    /\ last.out.net
    /\ ButtonsDisabled = {}
    /\ ~previewLoading
    /\ previewTextContent = <<"Falha na requisicao:">> \o FailedToFetch


\* The texts a successful response can put in the preview with the copy
\* button enabled: its whatsapp_text, when not empty.
ReportTexts ==
    {b.whatsapp_text : b \in {x \in OkReportBodies : x.kind = "report"}}
        \ {<<>>}
SomeSuccess == \E i \in DOMAIN completed : completed[i].success

\* C24: once a response was successful, whenever the copy button is
\* enabled the preview shows the non-empty whatsapp_text of a successful
\* response, never a loading, validation or error message.
C24_CopyButtonConsistency ==
    (SomeSuccess /\ ~btnCopiarDisabled) => previewTextContent \in ReportTexts


(***************************************************************************)
(* Claims about the indications of the chart view (Spec).                  *)
(***************************************************************************)
\* C25: while at least one table request is in flight, the Consultar
\* button is disabled and the loading text is visible.
C25_TableBusyIndication ==
    InFlight("table") # {}
        => btnConsultarDisabled /\ loadingTextDisplay = "block"


TableCompleted == \E c \in DOMAIN completed : completed[c].kind = "table"

\* C26: when no table request is in flight and at least one table fetch
\* has completed, exactly one of the error text and the table container is
\* visible.
C26_OutcomeExclusive ==
    (InFlight("table") = {} /\ TableCompleted)
        => (errorTextDisplay = "block") # (tableContainerDisplay = "block")


\* C27: when fetchAndRenderChart has handled the settling of the chart
\* request it has issued exactly one table request: for the current year
\* after any failure, for the last label of the series after a success.
C27_ChartAlwaysLoadsTable ==
    last.op = "chartDone"
    => /\ SentByChart = {Len(sent)}
       /\ sent[Len(sent)].kind = "table"
       /\ Request(Len(sent), "table", sent[Len(sent)].ano) \in requests
       /\ IF completed[Len(completed)].success
          THEN /\ last.out.body.labels # <<>>
               /\ sent[Len(sent)].ano
                    = last.out.body.labels[Len(last.out.body.labels)]
          ELSE sent[Len(sent)].ano = currentYear


(***************************************************************************)
(* Claim about the loading indicator of the panel (PanelSpec).             *)
(***************************************************************************)
\* C28: while at least one request of triggerProcess is in flight the
\* loading indicator is visible.
C28_PanelBusyIndication ==
    requests # {} => ~loadingDivHidden

=============================================================================
